---- MODULE Spec2Model ----
(***************************************************************************)
(* The gateway: an authenticating, permission-enforcing reverse proxy.     *)
(* The model follows src/src: the dispatcher (main.rs response / call),    *)
(* the token validator (auth.rs), the permission cache and its refresher   *)
(* (permission.rs), the route trie (route.rs), the API-definition consumer *)
(* (fetch_crd.rs, api.rs, endpoint.rs) and the WebSocket entry             *)
(* (websocket.rs handle_upgrade).                                          *)
(*                                                                         *)
(* Strings are TLA+ strings; s[i..j] of the source is SubSeq, + is \o.     *)
(* Option<T> is a sequence of length 0 (None) or 1 (Some).                 *)
(***************************************************************************)
EXTENDS Integers, Sequences, FiniteSets, TLC

None == <<>>
Some(x) == <<x>>
IsSome(o) == Len(o) = 1
Unwrap(o) == o[1]

\* ------------------------------------------------------------- strings

CharAt(s, i) == SubSeq(s, i, i)

\* str::find(c): the 1-based index of the first occurrence, 0 when absent.
Find(s, c) ==
    IF \E i \in 1..Len(s) : CharAt(s, i) = c
    THEN CHOOSE i \in 1..Len(s) :
            /\ CharAt(s, i) = c
            /\ \A j \in 1..(i - 1) : CharAt(s, j) # c
    ELSE 0

Contains(s, c) == Find(s, c) # 0

StartsWith(s, p) == Len(s) >= Len(p) /\ SubSeq(s, 1, Len(p)) = p

EndsWith(s, p) == Len(s) >= Len(p) /\ SubSeq(s, Len(s) - Len(p) + 1, Len(s)) = p

\* s[k..] of the source, k counted from 0.
From(s, k) == SubSeq(s, k + 1, Len(s))

\* str::split(sep) for a one-character separator: never empty, "" gives <<"">>.
RECURSIVE Split(_, _)
Split(s, sep) ==
    LET i == Find(s, sep)
    IN  IF i = 0 THEN <<s>>
        ELSE <<SubSeq(s, 1, i - 1)>> \o Split(From(s, i), sep)

\* ----------------------------------------------------- token validator

\* A bearer token as issued: which key signed it, its iss and aud claims,
\* whether exp is in the past, and the payload.
Claims(sub, token_id, username, given, family, email) ==
    [sub |-> sub, token_id |-> token_id, preferred_username |-> username,
     given_name |-> given, family_name |-> family, email |-> email]

ClaimsU1 == Claims("s1", "u1", "alice", "Alice", "A", "alice@x")
ClaimsU2 == Claims("s2", "u2", "bob", "Bob", "B", "bob@x")
\* The claims of u1 with a line feed in given_name, which JSON can carry and a
\* header value cannot.
ClaimsU1LineFeed == Claims("s1", "u1", "alice", "Al\nice", "A", "alice@x")

Jwt(key, iss, aud, expired, claims) ==
    [key |-> key, iss |-> iss, aud |-> aud, expired |-> expired, claims |-> claims]

\* The tokens clients present; every other string is not a JWT at all.
IssuedTokens == {"1", "2", "3", "4", "5"}

JwtOf(token) ==
    CASE token = "1" -> Jwt("K1", "I1", {"A1"}, FALSE, ClaimsU1)
      [] token = "2" -> Jwt("K2", "I2", {"A1", "A2"}, FALSE, ClaimsU2)
      [] token = "3" -> Jwt("K2", "I2", {"A2"}, FALSE, ClaimsU1)
      [] token = "4" -> Jwt("K1", "I1", {"A1"}, TRUE, ClaimsU2)
      [] token = "5" -> Jwt("K1", "I1", {"A1"}, FALSE, ClaimsU1LineFeed)

\* TokenSource::new: one verifier per configured auth source, in order.
TokenSource(name, token_type, issuer, audience, public_key) ==
    [name |-> name, token_type |-> token_type, issuer |-> issuer,
     audience |-> audience, public_key |-> public_key]

TOKEN_SOURCES ==
    << TokenSource("first", "short", "I1", "A1", "K1"),
       TokenSource("second", "long", "I2", "A1", "K2"),
       TokenSource("third", "service", "I2", "A2", "K2") >>

\* jsonwebtoken::decode under the source's Validation: RS256 signature by the
\* source's key, iss equal to the issuer, the audience among aud, exp not passed.
decode(token, token_source) ==
    IF /\ token \in IssuedTokens
       /\ JwtOf(token).key = token_source.public_key
       /\ JwtOf(token).iss = token_source.issuer
       /\ token_source.audience \in JwtOf(token).aud
       /\ ~JwtOf(token).expired
    THEN Some(JwtOf(token).claims)
    ELSE None

AUTH_SHIFT == Len("Bearer ")

\* A loop that gives up at the first source that rejects the token.
TrySources_stop_at_rejection(token, i) ==
    IF i > Len(TOKEN_SOURCES) THEN None
    ELSE IF IsSome(decode(token, TOKEN_SOURCES[i]))
         THEN Some(<<Unwrap(decode(token, TOKEN_SOURCES[i])), TOKEN_SOURCES[i].token_type>>)
         ELSE None

\* The loop of get_claims from source i on: the first Ok returns.
RECURSIVE TrySources(_, _)
TrySources(token, i) ==
    IF i > Len(TOKEN_SOURCES) THEN None
    ELSE IF IsSome(decode(token, TOKEN_SOURCES[i]))
         THEN Some(<<Unwrap(decode(token, TOKEN_SOURCES[i])), TOKEN_SOURCES[i].token_type>>)
         ELSE TrySources(token, i + 1)

get_claims(authorization) ==
    IF Len(authorization) <= AUTH_SHIFT THEN None
    ELSE TrySources(From(authorization, AUTH_SHIFT), 1)

\* ------------------------------------------------------------ endpoint

Endpoint(path, method, is_websocket, check_permission) ==
    [path |-> path, method |-> method, is_websocket |-> is_websocket,
     permission |-> "", check_permission |-> check_permission]

\* A synthesized endpoint that is marked as a WebSocket endpoint.
from_forward_all_websocket(path, method, app) ==
    [path |-> path, method |-> method, is_websocket |-> TRUE,
     permission |-> From(app, 1) \o "::" \o method \o "::FULL_ACCESS",
     check_permission |-> TRUE]

from_forward_all(path, method, app) ==
    [path |-> path, method |-> method, is_websocket |-> FALSE,
     permission |-> From(app, 1) \o "::" \o method \o "::FULL_ACCESS",
     check_permission |-> TRUE]

\* The end of the match of \{[^/]*\} that opens at i: the last '}' that no '/'
\* separates from the '{' (the star is greedy); 0 when there is no match at i.
ParamEnd(s, i) ==
    LET ends == {j \in (i + 1)..Len(s) :
                    /\ CharAt(s, j) = "}"
                    /\ \A k \in (i + 1)..(j - 1) : CharAt(s, k) # "/"}
    IN  IF CharAt(s, i) = "{" /\ ends # {}
        THEN CHOOSE j \in ends : \A k \in ends : k <= j
        ELSE 0

\* Regex::is_match of \{[^/]*\}: a match anywhere in s.
IS_PARAM(s) == \E i \in 1..Len(s) : ParamEnd(s, i) # 0

\* PATH_TO_PERM.replace_all(path, "{}"): leftmost matches, left to right.
RECURSIVE PATH_TO_PERM_replace_all(_)
PATH_TO_PERM_replace_all(s) ==
    IF ~IS_PARAM(s) THEN s
    ELSE LET i == CHOOSE i \in 1..Len(s) :
                    /\ ParamEnd(s, i) # 0
                    /\ \A k \in 1..(i - 1) : ParamEnd(s, k) = 0
         IN  SubSeq(s, 1, i - 1) \o "{}" \o PATH_TO_PERM_replace_all(From(s, ParamEnd(s, i)))

\* A permission string that keeps the parameter names of the template.
build_permission_named(endpoint, app) ==
    [endpoint EXCEPT !.permission = app \o "::" \o endpoint.method \o "::" \o endpoint.path]

build_permission(endpoint, app) ==
    [endpoint EXCEPT !.permission =
        app \o "::" \o endpoint.method \o "::" \o PATH_TO_PERM_replace_all(endpoint.path)]

\* The regex (.?)\{([^/]+)\}(.?) of check_parameters.  ContentEnd: where the
\* closing '}' of a match whose '{' is at i stands (greedy plus), 0 if none.
ContentEnd(s, i) ==
    LET ends == {j \in (i + 2)..Len(s) :
                    /\ CharAt(s, j) = "}"
                    /\ \A k \in (i + 1)..(j - 1) : CharAt(s, k) # "/"}
    IN  IF i >= 1 /\ i <= Len(s) /\ CharAt(s, i) = "{" /\ ends # {}
        THEN CHOOSE j \in ends : \A k \in ends : k <= j
        ELSE 0

\* A match starts at p either with (.?) taking the character at p and '{' at
\* p + 1 (tried first: the option is greedy) or with (.?) empty and '{' at p.
MatchStartsAt(s, p) == ContentEnd(s, p + 1) # 0 \/ ContentEnd(s, p) # 0

match_param_is_match(s) == \E p \in 1..Len(s) : MatchStartsAt(s, p)

\* captures(): groups 1 and 2 of the leftmost match.
match_param_captures(s) ==
    LET p == CHOOSE p \in 1..Len(s) :
                /\ MatchStartsAt(s, p)
                /\ \A q \in 1..(p - 1) : ~MatchStartsAt(s, q)
        open == IF ContentEnd(s, p + 1) # 0 THEN p + 1 ELSE p
    IN  [preceded |-> IF open = p THEN "" ELSE CharAt(s, p),
         content |-> SubSeq(s, open + 1, ContentEnd(s, open) - 1)]

\* Endpoint::check_parameters.  The loop replaces in the string "{content}",
\* not in mut_path: mut_path becomes "" after the first capture and the loop
\* ends, so the first parameter is the only one examined.
check_parameters(endpoint) ==
    IF ~match_param_is_match(endpoint.path) THEN TRUE
    ELSE LET c == match_param_captures(endpoint.path)
         IN  /\ ~Contains(c.content, "{")
             /\ ~Contains(c.content, "}")
             /\ c.preceded = "/"

check_path(endpoint) == endpoint.path # "" /\ StartsWith(endpoint.path, "/")

\* Method::from_str: a non-empty run of token characters.
check_method(endpoint) ==
    /\ endpoint.method # ""
    /\ \A i \in 1..Len(endpoint.method) :
            CharAt(endpoint.method, i) \notin {" ", "/", "{", "}", ":", "?"}

Endpoint_check_fields(endpoint) ==
    check_path(endpoint) /\ check_parameters(endpoint) /\ check_method(endpoint)

\* --------------------------------------------------------------- route

EmptyMap == <<>>
Put(f, k, v) == [y \in (DOMAIN f) \cup {k} |-> IF y = k THEN v ELSE f[y]]

Node_empty == [endpoint_set |-> EmptyMap, sub_route |-> EmptyMap, param |-> None]

\* A strip that leaves the trailing slash in place.
strip_path_keep_trailing(path) ==
    IF Len(path) < 2 THEN path ELSE From(path, 1)

strip_path(path) ==
    IF Len(path) < 2 THEN path
    ELSE IF EndsWith(path, "/") THEN SubSeq(path, 2, Len(path) - 1)
    ELSE From(path, 1)

RECURSIVE Node_insert(_, _, _)
Node_insert(node, split_path, endpoint) ==
    IF split_path = <<>>
    THEN [node EXCEPT !.endpoint_set = Put(@, endpoint.method, endpoint)]
    ELSE LET current_path == Head(split_path)
             rest == Tail(split_path)
         IN  IF ~IS_PARAM(current_path)
             THEN LET next_node == IF current_path \in DOMAIN node.sub_route
                                   THEN node.sub_route[current_path]
                                   ELSE Node_empty
                  IN  [node EXCEPT !.sub_route =
                          Put(@, current_path, Node_insert(next_node, rest, endpoint))]
             ELSE LET next_node == IF IsSome(node.param)
                                   THEN Unwrap(node.param)
                                   ELSE Node_empty
                  IN  [node EXCEPT !.param = Some(Node_insert(next_node, rest, endpoint))]

RECURSIVE InsertAll(_, _, _)
InsertAll(node, endpoints, app) ==
    IF endpoints = <<>> THEN node
    ELSE LET built_endpoint == build_permission(Head(endpoints), app)
         IN  InsertAll(Node_insert(node, Split(strip_path(built_endpoint.path), "/"),
                                   built_endpoint),
                       Tail(endpoints), app)

\* Node::new(api)
Node_new(api) ==
    IF api.mode.kind = "forward_all" THEN Node_empty
    ELSE InsertAll(Node_empty, api.mode.endpoints, From(api.app_name, 1))

\* A walk that falls back on the param child when the literal child's subtree
\* has no match.
RECURSIVE Walk_backtracking(_, _, _)
Walk_backtracking(node, split_path, method) ==
    IF split_path = <<>>
    THEN IF method \in DOMAIN node.endpoint_set
         THEN Some(node.endpoint_set[method])
         ELSE None
    ELSE LET literal == IF Head(split_path) \in DOMAIN node.sub_route
                        THEN Walk_backtracking(node.sub_route[Head(split_path)],
                                               Tail(split_path), method)
                        ELSE None
         IN  IF IsSome(literal) THEN literal
             ELSE IF IsSome(node.param)
                  THEN Walk_backtracking(Unwrap(node.param), Tail(split_path), method)
                  ELSE None

RECURSIVE Walk(_, _, _)
Walk(node, split_path, method) ==
    IF split_path = <<>>
    THEN IF method \in DOMAIN node.endpoint_set
         THEN Some(node.endpoint_set[method])
         ELSE None
    ELSE IF Head(split_path) \in DOMAIN node.sub_route
         THEN Walk(node.sub_route[Head(split_path)], Tail(split_path), method)
         ELSE IF IsSome(node.param)
              THEN Walk(Unwrap(node.param), Tail(split_path), method)
              ELSE None

match_path(node, path, method) == Walk(node, Split(strip_path(path), "/"), method)

\* ----------------------------------------------------------------- api

ForwardAll == [kind |-> "forward_all", endpoints |-> <<>>]
ForwardStrict(endpoints) == [kind |-> "forward_strict", endpoints |-> endpoints]

ApiDefinition(app_name, host, mode, forward_path) ==
    [app_name |-> app_name, host |-> host, mode |-> mode,
     forward_path |-> forward_path, uri_http |-> "", uri_ws |-> ""]

check_app_name(api) ==
    /\ Len(api.app_name) >= 2
    /\ StartsWith(api.app_name, "/")
    /\ ~Contains(From(api.app_name, 1), "/")
    /\ api.app_name # "/metrics"
    /\ api.app_name # "/health"

\* Url::parse("http://" + host) succeeds: a non-empty host without a space.
check_host(api) == api.host # "" /\ ~Contains(api.host, " ")

check_forward_path(api) == api.forward_path = "" \/ StartsWith(api.forward_path, "/")

check_endpoints(api) ==
    api.mode.kind = "forward_strict" =>
        \A i \in 1..Len(api.mode.endpoints) : Endpoint_check_fields(api.mode.endpoints[i])

\* A validation that lets any app_name through.
ApiDefinition_check_fields_any_name(api) ==
    check_host(api) /\ check_endpoints(api) /\ check_forward_path(api)

ApiDefinition_check_fields(api) ==
    check_app_name(api) /\ check_host(api) /\ check_endpoints(api) /\ check_forward_path(api)

build_uri(api) ==
    [api EXCEPT !.uri_http = "http://" \o api.host \o api.forward_path,
                !.uri_ws = "ws://" \o api.host \o api.forward_path]

\* ---------------------------------------------------------- permission

Perm(role_name, user_id) == [role_name |-> role_name, user_id |-> user_id]

Get(f, k, default) == IF k \in DOMAIN f THEN f[k] ELSE default

\* Where the leftmost match of ([^:]+)::roles::(.*) finds "::roles::": the first
\* occurrence that a character other than ':' precedes; 0 when nothing matches.
RolesAt(s, k) ==
    /\ k > 1
    /\ k + Len("::roles::") - 1 <= Len(s)
    /\ SubSeq(s, k, k + Len("::roles::") - 1) = "::roles::"
    /\ CharAt(s, k - 1) # ":"

IS_ROLE_PERM_find(s) ==
    IF \E k \in 1..Len(s) : RolesAt(s, k)
    THEN CHOOSE k \in 1..Len(s) : RolesAt(s, k) /\ \A j \in 1..(k - 1) : ~RolesAt(s, j)
    ELSE 0

\* IS_ROLE_PERM.captures: group 1 is the run of non-':' characters that ends
\* where "::roles::" begins, group 2 the rest of the string.
IS_ROLE_PERM_captures(s) ==
    LET k == IS_ROLE_PERM_find(s)
        start == CHOOSE q \in 1..(k - 1) :
                    /\ \A i \in q..(k - 1) : CharAt(s, i) # ":"
                    /\ q = 1 \/ CharAt(s, q - 1) = ":"
    IN  IF k = 0 THEN None
        ELSE Some([app_name |-> SubSeq(s, start, k - 1),
                   role_name |-> From(s, k + Len("::roles::") - 1)])

\* A fold in which a record replaces the users an earlier record of the same
\* name contributed.
AddPerm_replacing(acc, perm) ==
    LET captures == IS_ROLE_PERM_captures(perm.role_name)
        user_role ==
            IF IsSome(captures)
            THEN [u \in (DOMAIN acc.user_role) \cup perm.user_id |->
                    IF u \in perm.user_id
                    THEN LET apps == Get(acc.user_role, u, EmptyMap)
                             app == Unwrap(captures).app_name
                         IN  Put(apps, app,
                                 Append(Get(apps, app, <<>>), Unwrap(captures).role_name))
                    ELSE acc.user_role[u]]
            ELSE acc.user_role
    IN  [perm_hm |-> Put(acc.perm_hm, perm.role_name, perm.user_id),
         user_role |-> user_role]

\* One record of a fetched list folded into (perm_hm, user_role).
AddPerm(acc, perm) ==
    LET captures == IS_ROLE_PERM_captures(perm.role_name)
        user_role ==
            IF IsSome(captures)
            THEN [u \in (DOMAIN acc.user_role) \cup perm.user_id |->
                    IF u \in perm.user_id
                    THEN LET apps == Get(acc.user_role, u, EmptyMap)
                             app == Unwrap(captures).app_name
                         IN  Put(apps, app,
                                 Append(Get(apps, app, <<>>), Unwrap(captures).role_name))
                    ELSE acc.user_role[u]]
            ELSE acc.user_role
        perm_hm ==
            IF perm.role_name \in DOMAIN acc.perm_hm
            THEN Put(acc.perm_hm, perm.role_name,
                     acc.perm_hm[perm.role_name] \cup perm.user_id)
            ELSE Put(acc.perm_hm, perm.role_name, perm.user_id)
    IN  [perm_hm |-> perm_hm, user_role |-> user_role]

RECURSIVE AddPermVec(_, _)
AddPermVec(acc, perm_vec) ==
    IF perm_vec = <<>> THEN acc
    ELSE AddPermVec(AddPerm(acc, Head(perm_vec)), Tail(perm_vec))

\* perms.iter().fold(String::new(), |acc, perm| acc + "," + perm)
RECURSIVE FoldComma(_)
FoldComma(perms) ==
    IF perms = <<>> THEN ""
    ELSE FoldComma(SubSeq(perms, 1, Len(perms) - 1)) \o "," \o perms[Len(perms)]

user_role_final(user_role) ==
    [u \in DOMAIN user_role |->
        [a \in DOMAIN user_role[u] |-> From(FoldComma(user_role[u][a]), 1)]]

\* A fetch that passes over the URIs that fail and builds the maps from the
\* ones that answered.
RECURSIVE FetchAll_skipping(_, _)
FetchAll_skipping(acc, answers) ==
    IF answers = <<>> THEN Some(acc)
    ELSE IF ~IsSome(Head(answers)) THEN FetchAll_skipping(acc, Tail(answers))
    ELSE FetchAll_skipping(AddPermVec(acc, Unwrap(Head(answers))), Tail(answers))

\* get_perm over the answers of the configured permission URIs, in order; an
\* answer is None when the fetch or the JSON decoding failed.
RECURSIVE FetchAll(_, _)
FetchAll(acc, answers) ==
    IF answers = <<>> THEN Some(acc)
    ELSE IF ~IsSome(Head(answers)) THEN None
    ELSE FetchAll(AddPermVec(acc, Unwrap(Head(answers))), Tail(answers))

get_perm(answers) ==
    LET r == FetchAll([perm_hm |-> EmptyMap, user_role |-> EmptyMap], answers)
    IN  IF IsSome(r)
        THEN Some([perm |-> Unwrap(r).perm_hm, role |-> user_role_final(Unwrap(r).user_role)])
        ELSE None

\* A check that lets everybody through when the cache has no entry for the
\* permission string.
has_perm_absent_passes(perm_map, perm, token_id) ==
    perm \notin DOMAIN perm_map \/ token_id \in perm_map[perm]

has_perm(perm_map, perm, token_id) ==
    perm \in DOMAIN perm_map /\ token_id \in perm_map[perm]

\* ------------------------------------------------------- configuration

\* RUNTIME_CONFIG.max_fetch_error_count of the modelled deployment.
max_fetch_error_count == 2

\* What each of the two configured perm_uris may answer: Some(list) or None.
PermAnswers ==
    << { None,
         Some(<<>>),
         Some(<< Perm("a::GET::FULL_ACCESS", {"u1"}),
                 Perm("b::GET::/w/", {"u1"}),
                 Perm("a::roles::admin", {"u1"}) >>) },
       { None,
         Some(<< Perm("b::POST::/{}", {"u2"}),
                 Perm("b::GET::/w/", {"u2"}),
                 Perm("a::GET::/x", {"u1", "u2"}),
                 Perm("a::roles::dev", {"u1", "u2"}) >>) } >>

\* Answers of the two perm_uris with the same role_name in several records of
\* one list and in both lists, with several roles of one user in one app, and
\* with a role_name that carries a prefix before its "::roles::" part.
FetchAnswers ==
    << { None,
         Some(<<>>),
         Some(<< Perm("a::roles::admin", {"u1"}),
                 Perm("p", {"u1"}),
                 Perm("a::b::roles::x", {"u1"}),
                 Perm("p", {"u2"}) >>),
         Some(<< Perm("a::roles::dev", {"u1", "u2"}),
                 Perm("a::roles::admin", {"u2"}) >>) },
       { None,
         Some(<<>>),
         Some(<< Perm("p", {"u3"}),
                 Perm("a::roles::ops", {"u1"}),
                 Perm("b::roles::admin", {"u1"}) >>) } >>

\* The objects the watch stream may deliver.
DefAAll == ApiDefinition("/a", "h1:80", ForwardAll, "")
\* forward_all with a forward_path that check_forward_path accepts and that
\* makes the backend URI unparsable.
DefAAllSpace == ApiDefinition("/a", "h1:80", ForwardAll, "/ v")
DefAStrict ==
    ApiDefinition("/a", "h1:80",
                  ForwardStrict(<< Endpoint("/x", "GET", FALSE, TRUE) >>), "/ v")
DefB ==
    ApiDefinition("/b", "h2",
                  ForwardStrict(<< Endpoint("/x", "GET", FALSE, FALSE),
                                   Endpoint("/w/", "GET", TRUE, TRUE),
                                   Endpoint("/{i}", "POST", FALSE, TRUE) >>), "/v1")
DefBadName == ApiDefinition("/health", "h3", ForwardAll, "")
DefBadParam ==
    ApiDefinition("/b", "h2", ForwardStrict(<< Endpoint("/x{i}", "GET", FALSE, FALSE) >>), "")

\* The items of the watch stream: Err(e), Ok(None), or Ok(Some(object)) whose
\* conversion to an ApiDefinition succeeds (parses) or not.
StreamItem(kind, parses, spec) == [kind |-> kind, parses |-> parses, spec |-> spec]

StreamItems ==
    { StreamItem("object", TRUE, d) : d \in {DefAAll, DefAStrict, DefB, DefBadName, DefBadParam} }
    \cup { StreamItem("object", FALSE, DefAAll),
           StreamItem("error", FALSE, DefAAll),
           StreamItem("none", FALSE, DefAAll) }

\* The requests clients send.
HeaderValue(utf8, text) == [utf8 |-> utf8, text |-> text]

Paths == {"/", "/health", "/metrics", "/a/x", "/b/x", "/b/w/", "/b/7", "/d/x"}
Methods == {"GET", "POST", "OPTIONS"}
AuthorizationHeaders ==
    { None, Some(HeaderValue(FALSE, "Bearer 1")) }
    \cup { Some(HeaderValue(TRUE, t)) :
            t \in {"Bearer ", "Bearer 1", "Bearer 2", "Bearer 3", "Bearer 4", "Digest 2"} }
Queries ==
    { <<>>,
      << <<"_auth_token", "1">> >>,
      << <<"x", "y">>, <<"_auth_token", "4">>, <<"_auth_token", "1">> >> }

Request(path, query, method, authorization, upgrade) ==
    [path |-> path, query |-> query, method |-> method,
     authorization |-> authorization, upgrade |-> upgrade, headers |-> EmptyMap,
     size_hint |-> [lower |-> 0, upper |-> <<0>>]]

\* The request r with a body of that size hint.
Sending(r, size_hint) == [r EXCEPT !.size_hint = size_hint]

\* The request r with further headers set by the client.
Supplying(r, headers) == [r EXCEPT !.headers = headers]

\* Every path and method under three credentials; every credential and query
\* on one forwardable path; upgrade handshakes on a WebSocket and a plain path.
Requests ==
    { Request(p, <<>>, m, a, FALSE) :
        p \in Paths, m \in Methods,
        a \in {None, Some(HeaderValue(TRUE, "Bearer 1")), Some(HeaderValue(TRUE, "Bearer 2"))} }
    \cup { Request("/a/x", q, "GET", a, FALSE) : q \in Queries, a \in AuthorizationHeaders }
    \cup { Request(p, <<>>, "GET", Some(HeaderValue(TRUE, t)), TRUE) :
            p \in {"/b/w/", "/a/x"}, t \in {"Bearer 1", "Bearer 2"} }
    \cup { Supplying(Request("/a/x", <<>>, "GET", Some(HeaderValue(TRUE, t)), FALSE),
                      [y \in {"x-forwarded-user-first-name"} |-> "Mallory"]) :
            t \in {"Bearer 1", "Bearer 5"} }
    \cup { Sending(Request("/a/x", <<>>, "GET", Some(HeaderValue(TRUE, "Bearer 1")), FALSE),
                    [lower |-> 0, upper |-> <<>>]) }

\* What the backend may answer to a forwarded HTTP request: a status, or a
\* transport failure (None).
BackendAnswers == { None, Some(200), Some(403) }

\* How the backend WebSocket handshake may end.
HandshakeAnswers == { "101", "other", "error" }

\* ---------------------------------------------------------- dispatcher

OK == "Ok"
NOT_FOUND == "Not Found"
FORBIDDEN == "Forbidden"
BAD_GATEWAY == "Bad Gateway"
NO_CONTENT == ""

\* Body::size_hint(): the lower bound and, when one is known, the upper bound.
SizeHint(lower, upper) == [lower |-> lower, upper |-> upper]

\* The hint of a body whose length is known.
SizeHint_exact(n) == SizeHint(n, Some(n))

Response(status, body, headers) ==
    [status |-> status, body |-> body, headers |-> headers,
     size_hint |-> SizeHint_exact(Len(body))]

Header(name, value) == [y \in {name} |-> value]
Merge(f, g) == [y \in (DOMAIN f) \cup (DOMAIN g) |-> IF y \in DOMAIN g THEN g[y] ELSE f[y]]
Remove(f, k) == [y \in (DOMAIN f) \ {k} |-> f[y]]

\* The response get_response builds (the metrics commit is in Respond below).
get_response(status_code, content) ==
    Response(status_code, content,
             [y \in {"access-control-allow-origin", "access-control-allow-headers",
                     "access-control-allow-methods", "access-control-allow-credentials",
                     "access-control-max-age"} |->
                CASE y = "access-control-allow-credentials" -> "true"
                  [] y = "access-control-max-age" -> "86400"
                  [] OTHER -> "*"])

metrics == Response(200, "exposition", Header("content-type", "text/plain"))

\* A health probe that reports the state of the permission cache.
health_unavailable ==
    Response(503, "Unavailable",
             [y \in {"access-control-allow-origin", "access-control-allow-headers",
                     "access-control-allow-methods"} |-> "*"])

health ==
    Response(200, OK,
             [y \in {"access-control-allow-origin", "access-control-allow-headers",
                     "access-control-allow-methods"} |-> "*"])

\* A response that keeps the origin header the backend sent.
inject_cors_if_absent(headers) ==
    IF "access-control-allow-origin" \in DOMAIN headers THEN headers
    ELSE Put(headers, "access-control-allow-origin", "*")

inject_cors(headers) == Put(headers, "access-control-allow-origin", "*")

\* str::parse::<HeaderValue>(): no control character.
HeaderValueParses(s) == ~Contains(s, "\n")

InsertIfParses(headers, name, value) ==
    IF HeaderValueParses(value) THEN Put(headers, name, value) ELSE headers

inject_headers(headers, claims, app_user_roles, token_type, remove_authorization) ==
    LET h0 == IF remove_authorization THEN Remove(headers, "authorization") ELSE headers
        h1 == InsertIfParses(h0, "x-forwarded-user", claims.token_id)
        h2 == InsertIfParses(h1, "x-forwarded-user-username", claims.preferred_username)
        h3 == InsertIfParses(h2, "x-forwarded-user-first-name", claims.given_name)
        h4 == InsertIfParses(h3, "x-forwarded-user-last-name", claims.family_name)
        h5 == InsertIfParses(h4, "x-forwarded-user-email", claims.email)
        h6 == InsertIfParses(h5, "x-forwarded-user-roles", app_user_roles)
    IN  InsertIfParses(h6, "x-forwarded-user-type", token_type)

RECURSIVE QueryText(_)
QueryText(query) ==
    IF query = <<>> THEN ""
    ELSE Head(query)[1] \o "=" \o Head(query)[2]
         \o (IF Len(query) > 1 THEN "&" \o QueryText(Tail(query)) ELSE "")

\* Uri::path_and_query as a string.
path_and_query(r) == r.path \o (IF r.query = <<>> THEN "" ELSE "?" \o QueryText(r.query))

\* The headers of the inbound request.
RequestHeaders(r) ==
    IF IsSome(r.authorization)
    THEN Merge(r.headers, Header("authorization", Unwrap(r.authorization)))
    ELSE r.headers

\* get_auth_from_url: the first _auth_token pair of the query, as a Bearer value.
RECURSIVE get_auth_from_url(_)
get_auth_from_url(query) ==
    IF query = <<>> THEN None
    ELSE IF Head(query)[1] = "_auth_token" THEN Some("Bearer " \o Head(query)[2])
    ELSE get_auth_from_url(Tail(query))

\* An app key that falls back on the whole path when there is no second slash.
AppOf_whole_path(path) ==
    LET f == Find(From(path, 1), "/")
    IN  IF f = 0 THEN Some(path) ELSE Some(SubSeq(path, 1, f))

\* path[1..].find('/') and path[..slash_index]: the app key, None without a
\* second slash.
AppOf(path) ==
    LET f == Find(From(path, 1), "/")
    IN  IF f = 0 THEN None ELSE Some(SubSeq(path, 1, f))

\* A credential extraction that looks at the query string before the header.
AuthorizationOf_query_first(r) ==
    IF IsSome(get_auth_from_url(r.query)) THEN get_auth_from_url(r.query)
    ELSE IF ~IsSome(r.authorization) THEN None
    ELSE IF Unwrap(r.authorization).utf8 THEN Some(Unwrap(r.authorization).text)
    ELSE None

\* A credential extraction that falls back on a built-in token when the request
\* carries none.
AuthorizationOf_default_token(r) ==
    IF ~IsSome(r.authorization)
    THEN (IF IsSome(get_auth_from_url(r.query)) THEN get_auth_from_url(r.query)
          ELSE Some("Bearer 1"))
    ELSE IF Unwrap(r.authorization).utf8 THEN Some(Unwrap(r.authorization).text)
    ELSE None

\* The authorization string of response(): the header when present (None when
\* it is not UTF-8), otherwise the query fallback.
AuthorizationOf(r) ==
    IF ~IsSome(r.authorization) THEN get_auth_from_url(r.query)
    ELSE IF Unwrap(r.authorization).utf8 THEN Some(Unwrap(r.authorization).text)
    ELSE None

\* str::parse::<Uri>(): fails on a space.
UriParses(uri) == ~Contains(uri, " ")

\* The roles string call() reads under the role read lock.
RolesOf(role_map, token_id, app_noslash) ==
    IF token_id \in DOMAIN role_map /\ app_noslash \in DOMAIN role_map[token_id]
    THEN role_map[token_id][app_noslash]
    ELSE ""

Early(kind, status_code, content, app) ==
    [kind |-> kind, status_code |-> status_code, content |-> content, app |-> app]

\* A dispatcher that looks for the second slash before the method, as the
\* static-configuration gateway (gateway/src/main.rs) does.
response_early_slash_first(r) ==
    IF r.path = "/metrics" THEN Early("metrics", 200, "", "")
    ELSE IF r.path = "/health" THEN Early("health", 200, "", "")
    ELSE IF ~IsSome(AppOf(r.path)) THEN Early("return", 404, NOT_FOUND, "")
    ELSE IF r.method = "OPTIONS" THEN Early("return", 204, NO_CONTENT, "")
    ELSE IF ~IsSome(AuthorizationOf(r))
         THEN Early("return", 403, FORBIDDEN, Unwrap(AppOf(r.path)))
    ELSE IF ~IsSome(get_claims(Unwrap(AuthorizationOf(r))))
         THEN Early("return", 403, FORBIDDEN, Unwrap(AppOf(r.path)))
    ELSE Early("proceed", 0, "", Unwrap(AppOf(r.path)))

\* The early returns of response(), in the order of the code: the two exact
\* paths, the preflight, the second slash, the credential, the token.
response_early(r) ==
    IF r.path = "/metrics" THEN Early("metrics", 200, "", "")
    ELSE IF r.path = "/health" THEN Early("health", 200, "", "")
    ELSE IF r.method = "OPTIONS" THEN Early("return", 204, NO_CONTENT, "")
    ELSE IF ~IsSome(AppOf(r.path)) THEN Early("return", 404, NOT_FOUND, "")
    ELSE IF ~IsSome(AuthorizationOf(r))
         THEN Early("return", 403, FORBIDDEN, Unwrap(AppOf(r.path)))
    ELSE IF ~IsSome(get_claims(Unwrap(AuthorizationOf(r))))
         THEN Early("return", 403, FORBIDDEN, Unwrap(AppOf(r.path)))
    ELSE Early("proceed", 0, "", Unwrap(AppOf(r.path)))

\* --------------------------------------------------------- socket metrics

MaxFrames == 2
MaxMessages == 2
Frames == {"a", "bb"}

metrics_prefix == "p"

get_metric_name(name, protocol) ==
    "gateway_" \o metrics_prefix \o "_" \o protocol \o "_" \o name

\* The socket statics of metrics.rs and the name each registers under.
SocketStatics ==
    [y \in {"SOCKET_CONNECTED_HISTOGRAM", "SOCKET_MESSAGE_SENT_COUNTER",
            "SOCKET_MESSAGE_RECV_COUNTER", "SOCKET_MESSAGE_SENT_SIZE_HISTOGRAM",
            "SOCKET_MESSAGE_RECV_SIZE_HISTOGRAM"} |->
        CASE y = "SOCKET_CONNECTED_HISTOGRAM" -> get_metric_name("clients", "socket")
          [] y = "SOCKET_MESSAGE_SENT_COUNTER" -> get_metric_name("message_sent", "socket")
          [] y = "SOCKET_MESSAGE_RECV_COUNTER" ->
                get_metric_name("message_received", "socket")
          [] y = "SOCKET_MESSAGE_SENT_SIZE_HISTOGRAM" ->
                get_metric_name("message_sent_size", "socket")
          [] OTHER -> get_metric_name("message_received", "socket")]

\* Lazy::force of a static: the first access registers the family with the
\* default registry, which refuses a name it already holds; the unwrap then
\* panics and poisons the Lazy, and so does every later access.
Force(m, static) ==
    IF static \in m.ready THEN [m |-> m, ok |-> TRUE]
    ELSE IF static \in m.poisoned THEN [m |-> m, ok |-> FALSE]
    ELSE IF SocketStatics[static] \in m.registry
         THEN [m |-> [m EXCEPT !.poisoned = @ \cup {static}], ok |-> FALSE]
    ELSE [m |-> [m EXCEPT !.ready = @ \cup {static},
                          !.registry = @ \cup {SocketStatics[static]}],
          ok |-> TRUE]

\* SocketMetricsGuard::new: SOCKET_CONNECTED_HISTOGRAM[app].inc().
SocketMetricsGuard_new(m, app) ==
    LET f == Force(m, "SOCKET_CONNECTED_HISTOGRAM")
    IN  IF f.ok
        THEN [m |-> [f.m EXCEPT !.clients = Put(@, app, Get(@, app, 0) + 1)],
              panicked |-> FALSE]
        ELSE [m |-> f.m, panicked |-> TRUE]

\* A Drop that leaves the gauge as it is.
SocketMetricsGuard_drop_forgotten(m, app) == m

\* Drop for SocketMetricsGuard: SOCKET_CONNECTED_HISTOGRAM[app].dec().
SocketMetricsGuard_drop(m, app) ==
    [m EXCEPT !.clients = Put(@, app, Get(@, app, 0) - 1)]

\* commit_message_sent: the counter, then the size histogram.
commit_message_sent(m, app) ==
    LET c == Force(m, "SOCKET_MESSAGE_SENT_COUNTER")
    IN  IF ~c.ok THEN [m |-> c.m, panicked |-> TRUE]
        ELSE LET counted == [c.m EXCEPT !.message_sent = Put(@, app, Get(@, app, 0) + 1)]
                 h == Force(counted, "SOCKET_MESSAGE_SENT_SIZE_HISTOGRAM")
             IN  [m |-> h.m, panicked |-> ~h.ok]

\* commit_message_received: the counter, then the size histogram.
commit_message_received(m, app) ==
    LET c == Force(m, "SOCKET_MESSAGE_RECV_COUNTER")
    IN  IF ~c.ok THEN [m |-> c.m, panicked |-> TRUE]
        ELSE LET counted == [c.m EXCEPT !.message_received =
                                            Put(@, app, Get(@, app, 0) + 1)]
                 h == Force(counted, "SOCKET_MESSAGE_RECV_SIZE_HISTOGRAM")
             IN  [m |-> h.m, panicked |-> ~h.ok]

VARIABLES
    running,            \* the process has not exited
    remove_authorization_header,  \* the cargo feature of the build
    req,                \* the request being served, None when idle
    pc,                 \* where response()/call() stands for it
    ctx,                \* the locals of response()/call()
    resp,               \* the response returned, None while there is none
    commits,            \* the (app, method, status_code) label sets committed to the
                        \* HTTP metric families for the request
    observed,           \* what each of these commits observed in the size families
    outbound,           \* the backend connections opened for the request
    hist,               \* the pipeline steps the request has passed
    perm, role,         \* the permission cache
    api_map,            \* the live API map
    api_readers,        \* read guards held on api_lock
    role_readers,       \* read guards held on role_lock
    refresher,          \* update_perm: its position, error_count and fetched maps, with
                        \* the payloads of the cycle in progress and of the last one
                        \* that completed
    crd_pending,        \* read_crds: the validated entry waiting for the write lock
    crd_stream,         \* update_api: the namespaces configured, the one being watched,
                        \* the objects applied and not yet delivered, and the history
                        \* of what read_crds has read
    ws_task,            \* the tunnel task spawned for the request: its state and loops
    socket_metrics      \* the socket metric families and the default registry

reqVars == <<req, pc, ctx, resp, commits, observed, outbound, hist>>
permVars == <<perm, role, refresher>>
apiVars == <<api_map, crd_pending, crd_stream>>
lockVars == <<api_readers, role_readers>>
vars == <<running, remove_authorization_header, req, pc, ctx, resp, commits, observed, outbound,
          hist, perm, role, api_map, api_readers, role_readers, refresher, crd_pending,
          crd_stream, ws_task, socket_metrics>>

NoCtx ==
    [app |-> "", claims |-> None, token_type |-> "", forwarded_uri |-> "",
     forwarded_path |-> "", endpoint |-> None, api |-> None,
     http_uri_string |-> "", ws_uri_string |-> "", handshake |-> "", tunnel |-> FALSE,
     backend |-> None, perm_from |-> None, role_from |-> None]

NoTask ==
    [state |-> "none", client_to_server |-> "", server_to_client |-> "",
     app |-> "", guard |-> FALSE, panicked |-> FALSE,
     from_client |-> <<>>, to_server |-> <<>>, tx_server_closed |-> FALSE,
     from_server |-> <<>>, to_client |-> <<>>, tx_client_closed |-> FALSE]

\* No Lazy static forced yet, nothing registered, no child of any family.
NoSocketMetrics ==
    [ready |-> {}, poisoned |-> {}, registry |-> {},
     clients |-> EmptyMap, message_sent |-> EmptyMap, message_received |-> EmptyMap]

\* The state main() builds, but for the API map: the caches of a first
\* successful get_perm (main unwraps it), no request, no lock held.
Started ==
    /\ running = TRUE
    /\ remove_authorization_header \in BOOLEAN
    /\ req = None
    /\ pc = "idle"
    /\ ctx = NoCtx
    /\ resp = None
    /\ commits = <<>>
    /\ observed = <<>>
    /\ outbound = <<>>
    /\ hist = <<>>
    /\ \E a1 \in PermAnswers[1], a2 \in PermAnswers[2] :
          /\ IsSome(get_perm(<<a1, a2>>))
          /\ perm = Unwrap(get_perm(<<a1, a2>>)).perm
          /\ role = Unwrap(get_perm(<<a1, a2>>)).role
          /\ refresher = [pc |-> "sleep", error_count |-> 0, update |-> None,
                          fetched |-> <<>>, payloads |-> <<a1, a2>>]
    /\ api_readers = 0
    /\ role_readers = 0
    /\ crd_pending = None
    /\ ws_task = NoTask
    /\ socket_metrics = NoSocketMetrics

\* update_api before its first read: `namespaces` is RUNTIME_CONFIG.crds_namespaces;
\* `errors` counts the errors read_crds has read from the stream.
CrdStream(namespaces) ==
    [namespaces |-> namespaces, ns |-> 1, pc |-> "reading", applied |-> {}, errors |-> 0]

Init == Started /\ api_map = EmptyMap /\ crd_stream = CrdStream(None)

\* commit_metrics: one observation of the HTTP families under full_labels.
commit_metrics(labels, status_code, req_size, res_size) ==
    /\ commits' = Append(commits, <<labels[1], labels[2], status_code>>)
    /\ observed' = Append(observed,
            [request_size_low |-> req_size.lower,
             request_size_high |-> req_size.upper,
             response_size_low |-> res_size.lower,
             response_size_high |-> req_size.upper])

\* get_response followed by the return of the handler.
Respond(status_code, content, labels, req_size) ==
    /\ resp' = Some(get_response(status_code, content))
    /\ commit_metrics(labels, status_code, req_size,
                      get_response(status_code, content).size_hint)
    /\ pc' = "done"

\* response() up to its first suspension on api_lock.
Receive(r) ==
    /\ running
    /\ pc = "idle"
    /\ req' = Some(r)
    /\ UNCHANGED <<running, remove_authorization_header, ws_task, socket_metrics, permVars, apiVars, lockVars, outbound>>
    /\ LET early == response_early(r)
       IN  CASE early.kind = "metrics" ->
                  /\ resp' = Some(metrics)
                  /\ pc' = "done"
                  /\ UNCHANGED <<ctx, commits, observed, hist>>
             [] early.kind = "health" ->
                  /\ resp' = Some(health)
                  /\ pc' = "done"
                  /\ UNCHANGED <<ctx, commits, observed, hist>>
             [] early.kind = "return" ->
                  /\ Respond(early.status_code, early.content, <<early.app, r.method>>, r.size_hint)
                  /\ ctx' = [ctx EXCEPT !.app = early.app]
                  /\ UNCHANGED hist
             [] OTHER ->
                  LET authorization == Unwrap(AuthorizationOf(r))
                  IN  /\ ctx' = [ctx EXCEPT
                            !.app = early.app,
                            !.claims = Some(Unwrap(get_claims(authorization))[1]),
                            !.token_type = Unwrap(get_claims(authorization))[2],
                            !.forwarded_uri = From(path_and_query(r), Len(early.app)),
                            !.forwarded_path = From(r.path, Len(early.app))]
                      /\ hist' = Append(hist, "credential")
                      /\ pc' = "api"
                      /\ UNCHANGED <<resp, commits, observed>>

Labels == <<ctx.app, Unwrap(req).method>>

\* api_lock.read().await.get(app), the endpoint resolution, and the way into
\* call().  The read guard is a temporary of the match scrutinee: it lives
\* until response() returns.
ApiLookup ==
    /\ running
    /\ pc = "api"
    /\ UNCHANGED <<running, remove_authorization_header, ws_task, socket_metrics, req, permVars, apiVars,
                   role_readers, outbound>>
    /\ IF ctx.app \notin DOMAIN api_map
       THEN /\ Respond(404, NOT_FOUND, Labels, Unwrap(req).size_hint)
            /\ UNCHANGED <<ctx, hist, api_readers>>
       ELSE LET api == api_map[ctx.app].api
                node == api_map[ctx.app].node
                endpoint ==
                    IF api.mode.kind = "forward_all"
                    THEN Some(from_forward_all(ctx.forwarded_path, Unwrap(req).method, ctx.app))
                    ELSE match_path(node, ctx.forwarded_path, Unwrap(req).method)
            IN  IF ~IsSome(endpoint)
                THEN /\ Respond(404, NOT_FOUND, Labels, Unwrap(req).size_hint)
                     /\ hist' = Append(hist, "api")
                     /\ UNCHANGED <<ctx, api_readers>>
                ELSE /\ ctx' = [ctx EXCEPT
                            !.endpoint = endpoint,
                            !.api = Some(api),
                            !.http_uri_string = api.uri_http \o ctx.forwarded_uri,
                            !.ws_uri_string = api.uri_ws \o ctx.forwarded_uri]
                     /\ hist' = hist \o <<"api", "endpoint">>
                     /\ api_readers' = api_readers + 1
                     /\ pc' = "perm"
                     /\ UNCHANGED <<resp, commits, observed>>

\* The fetches whose maps the perm cache and the role cache hold: update_perm
\* has written perm and not yet role while it stands at its role write.
PermFetch == IF refresher.pc = "role_write" THEN refresher.fetched ELSE refresher.payloads

RoleFetch == refresher.payloads

\* call() from has_perm to its next suspension: role_lock.read() on the HTTP
\* path, the backend handshake of handle_upgrade on the WebSocket path.
PermCheck ==
    /\ running
    /\ pc = "perm"
    /\ UNCHANGED <<running, remove_authorization_header, ws_task, socket_metrics, req, permVars, apiVars, role_readers>>
    /\ LET endpoint == Unwrap(ctx.endpoint)
       IN  IF ~has_perm(perm, endpoint.permission, Unwrap(ctx.claims).token_id)
           THEN /\ Respond(403, FORBIDDEN, Labels, Unwrap(req).size_hint)
                /\ api_readers' = api_readers - 1
                /\ UNCHANGED <<ctx, hist, outbound>>
           ELSE /\ hist' = Append(hist, "permission")
                /\ IF endpoint.is_websocket /\ Unwrap(req).upgrade
                   THEN /\ outbound' = Append(outbound,
                                [kind |-> "ws", uri |-> ctx.ws_uri_string,
                                 method |-> Unwrap(req).method,
                                 headers |-> RequestHeaders(Unwrap(req))])
                        /\ pc' = "ws"
                        /\ UNCHANGED <<ctx, resp, commits, observed, api_readers>>
                   ELSE IF endpoint.is_websocket
                   THEN /\ Respond(426, NO_CONTENT, Labels, Unwrap(req).size_hint)
                        /\ api_readers' = api_readers - 1
                        /\ UNCHANGED <<ctx, outbound>>
                   ELSE IF ~UriParses(ctx.http_uri_string)
                   THEN /\ Respond(404, NOT_FOUND, Labels, Unwrap(req).size_hint)
                        /\ api_readers' = api_readers - 1
                        /\ UNCHANGED <<ctx, outbound>>
                   ELSE /\ pc' = "role"
                        /\ ctx' = [ctx EXCEPT !.perm_from = Some(PermFetch)]
                        /\ UNCHANGED <<resp, commits, observed, api_readers, outbound>>

\* role_lock.read().await, inject_headers and the start of client.request(req).
\* role_read lives to the end of the block: across the await of the request.
RoleRead ==
    /\ running
    /\ pc = "role"
    /\ role_readers' = role_readers + 1
    /\ LET roles == RolesOf(role, Unwrap(ctx.claims).token_id, From(Unwrap(ctx.api).app_name, 1))
       IN  outbound' = Append(outbound,
                [kind |-> "http", uri |-> ctx.http_uri_string,
                 method |-> Unwrap(req).method,
                 headers |-> inject_headers(RequestHeaders(Unwrap(req)), Unwrap(ctx.claims),
                                            roles, ctx.token_type,
                                            remove_authorization_header)])
    /\ pc' = "http"
    /\ ctx' = [ctx EXCEPT !.role_from = Some(RoleFetch)]
    /\ UNCHANGED <<running, remove_authorization_header, ws_task, socket_metrics, req, resp, commits, observed, hist,
                   permVars, apiVars, api_readers>>

\* The backend sends its 200 answers with a Content-Length and streams the
\* others.
BackendResponse(status) ==
    [Response(status, "backend",
              [y \in {"content-type", "access-control-allow-origin"} |->
                 IF y = "content-type" THEN "application/json" ELSE "backend.example"])
        EXCEPT !.size_hint = IF status = 200 THEN @ ELSE SizeHint(0, None)]

\* client.request(req).await returns; call() and response() return.
HttpResult(answer) ==
    /\ running
    /\ pc = "http"
    /\ IF IsSome(answer)
       THEN /\ resp' = Some([BackendResponse(Unwrap(answer)) EXCEPT !.headers = inject_cors(@)])
            /\ commit_metrics(Labels, Unwrap(answer), Unwrap(req).size_hint,
                              BackendResponse(Unwrap(answer)).size_hint)
            /\ pc' = "done"
       ELSE Respond(502, BAD_GATEWAY, Labels, Unwrap(req).size_hint)
    /\ ctx' = [ctx EXCEPT !.backend = Some(answer)]
    /\ api_readers' = api_readers - 1
    /\ role_readers' = role_readers - 1
    /\ UNCHANGED <<running, remove_authorization_header, ws_task, socket_metrics, req, outbound, hist,
                   permVars, apiVars>>

SwitchingProtocols ==
    Response(101, "",
             [y \in {"connection", "upgrade", "sec-websocket-accept"} |->
                CASE y = "connection" -> "upgrade"
                  [] y = "upgrade" -> "websocket"
                  [] OTHER -> "accept-key"])

\* A handler that upgrades the client whenever the client's handshake is
\* acceptable, whatever the backend answered.
handle_upgrade_client_first(answer, upgraded) ==
    IF upgraded THEN "switching_protocols"
    ELSE IF answer # "101" THEN "bad_gateway"
    ELSE "error"

\* How handle_upgrade ends: `answer` is how the backend handshake of
\* create_ws_server ended, `upgraded` whether hyper_tungstenite::upgrade
\* accepted the client's handshake (its Err leaves through the `?`).
handle_upgrade(answer, upgraded) ==
    IF answer # "101" THEN "bad_gateway"
    ELSE IF upgraded THEN "switching_protocols"
    ELSE "error"

\* handle_upgrade from the end of the backend handshake to its return.
WsResult(answer, upgraded) ==
    /\ running
    /\ pc = "ws"
    /\ CASE handle_upgrade(answer, upgraded) = "bad_gateway" ->
              /\ Respond(502, BAD_GATEWAY, Labels, Unwrap(req).size_hint)
              /\ ctx' = [ctx EXCEPT !.handshake = answer]
              /\ UNCHANGED ws_task
         [] handle_upgrade(answer, upgraded) = "switching_protocols" ->
              /\ resp' = Some(SwitchingProtocols)
              /\ commit_metrics(Labels, 101, Unwrap(req).size_hint,
                                SwitchingProtocols.size_hint)
              /\ ctx' = [ctx EXCEPT !.handshake = answer, !.tunnel = TRUE]
              /\ ws_task' = [NoTask EXCEPT !.state = "spawned", !.app = ctx.app]
              /\ pc' = "done"
         [] OTHER ->
              /\ pc' = "failed"
              /\ ctx' = [ctx EXCEPT !.handshake = answer]
              /\ UNCHANGED <<resp, commits, observed, ws_task>>
    /\ api_readers' = api_readers - 1
    /\ UNCHANGED <<running, remove_authorization_header, socket_metrics, req, outbound,
                   hist, permVars, apiVars, role_readers>>

\* serve_websocket up to its loops: the client's upgrade completes and the
\* guard is taken, or the upgrade's Err ends the task through the `?`.
TunnelStart(accepted) ==
    /\ running
    /\ ws_task.state = "spawned"
    /\ IF accepted
       THEN LET g == SocketMetricsGuard_new(socket_metrics, ws_task.app)
            IN  /\ socket_metrics' = g.m
                /\ ws_task' = IF g.panicked
                              THEN [ws_task EXCEPT !.state = "ended", !.panicked = TRUE]
                              ELSE [ws_task EXCEPT !.state = "alive", !.guard = TRUE,
                                                   !.client_to_server = "running",
                                                   !.server_to_client = "running"]
       ELSE /\ ws_task' = [ws_task EXCEPT !.state = "ended"]
            /\ UNCHANGED socket_metrics
    /\ UNCHANGED <<running, remove_authorization_header, reqVars, permVars, apiVars, lockVars>>

\* A send that writes the frame twice.
send_twice(written, frame) == Append(Append(written, frame), frame)

\* tx.send(message) that succeeds: the frame is written to the destination.
send(written, frame) == Append(written, frame)

\* One turn of the client_to_server loop on Some(Ok(message)): the metric is
\* committed, then the frame is sent to the backend; `sent` is whether
\* tx_server.send succeeded. A panic of the commit unwinds the task, which
\* drops the guard and both sockets.
ClientFrame(frame, sent) ==
    /\ running
    /\ ws_task.state = "alive"
    /\ ws_task.client_to_server = "running"
    /\ Len(ws_task.from_client) < MaxFrames
    /\ Get(socket_metrics.message_received, ws_task.app, 0) < MaxMessages
    /\ LET c == commit_message_received(socket_metrics, ws_task.app)
           read == [ws_task EXCEPT !.from_client = Append(@, frame)]
       IN  IF c.panicked
           THEN /\ socket_metrics' = SocketMetricsGuard_drop(c.m, ws_task.app)
                /\ ws_task' = [read EXCEPT !.state = "ended", !.panicked = TRUE,
                                           !.guard = FALSE]
           ELSE /\ socket_metrics' = c.m
                /\ ws_task' = IF sent
                              THEN [read EXCEPT !.to_server = send(@, frame)]
                              ELSE [read EXCEPT !.tx_server_closed = TRUE,
                                                !.client_to_server = "err"]
    /\ UNCHANGED <<running, remove_authorization_header, reqVars, permVars, apiVars, lockVars>>

\* One turn of the server_to_client loop on Some(Ok(message)) up to the await
\* of tx_client.send(message): the metric is committed and the write is
\* pending.
ServerFrame(frame) ==
    /\ running
    /\ ws_task.state = "alive"
    /\ ws_task.server_to_client = "running"
    /\ Len(ws_task.from_server) < MaxFrames
    /\ Get(socket_metrics.message_sent, ws_task.app, 0) < MaxMessages
    /\ LET c == commit_message_sent(socket_metrics, ws_task.app)
           read == [ws_task EXCEPT !.from_server = Append(@, frame)]
       IN  IF c.panicked
           THEN /\ socket_metrics' = SocketMetricsGuard_drop(c.m, ws_task.app)
                /\ ws_task' = [read EXCEPT !.state = "ended", !.panicked = TRUE,
                                           !.guard = FALSE]
           ELSE /\ socket_metrics' = c.m
                /\ ws_task' = [read EXCEPT !.server_to_client = "sending"]
    /\ UNCHANGED <<running, remove_authorization_header, reqVars, permVars, apiVars, lockVars>>

\* tx_client.send(message).await returns: the frame read last is written and
\* the loop goes back to rx_server.next(), or the Err closes tx_client and ends
\* the loop.
ServerSent(sent) ==
    /\ running
    /\ ws_task.state = "alive"
    /\ ws_task.server_to_client = "sending"
    /\ ws_task' = IF sent
                  THEN [ws_task EXCEPT
                            !.to_client = send(@, ws_task.from_server[Len(ws_task.from_server)]),
                            !.server_to_client = "running"]
                  ELSE [ws_task EXCEPT !.tx_client_closed = TRUE,
                                       !.server_to_client = "err"]
    /\ UNCHANGED <<running, remove_authorization_header, socket_metrics, reqVars, permVars,
                   apiVars, lockVars>>

\* client_to_server leaves its loop: rx_client.next() gave None (Ok(())), or
\* Some(Err(e)), which closes tx_server and returns Err.
ClientToServerEnds(event) ==
    /\ running
    /\ ws_task.state = "alive"
    /\ ws_task.client_to_server = "running"
    /\ ws_task' = IF event = "end_of_stream"
                  THEN [ws_task EXCEPT !.client_to_server = "ok"]
                  ELSE [ws_task EXCEPT !.client_to_server = "err",
                                       !.tx_server_closed = TRUE]
    /\ UNCHANGED <<running, remove_authorization_header, socket_metrics, reqVars, permVars,
                   apiVars, lockVars>>

\* server_to_client leaves its loop, likewise.
ServerToClientEnds(event) ==
    /\ running
    /\ ws_task.state = "alive"
    /\ ws_task.server_to_client = "running"
    /\ ws_task' = IF event = "end_of_stream"
                  THEN [ws_task EXCEPT !.server_to_client = "ok"]
                  ELSE [ws_task EXCEPT !.server_to_client = "err",
                                       !.tx_client_closed = TRUE]
    /\ UNCHANGED <<running, remove_authorization_header, socket_metrics, reqVars, permVars,
                   apiVars, lockVars>>

\* try_join!: ready on the first Err, or when both futures returned Ok.
try_join(client_to_server, server_to_client) ==
    \/ client_to_server = "err"
    \/ server_to_client = "err"
    \/ (client_to_server = "ok" /\ server_to_client = "ok")

\* try_join! returns, serve_websocket returns and drops the guard and both
\* sockets.
TunnelJoin ==
    /\ running
    /\ ws_task.state = "alive"
    /\ try_join(ws_task.client_to_server, ws_task.server_to_client)
    /\ ws_task' = [ws_task EXCEPT !.state = "ended", !.guard = FALSE]
    /\ socket_metrics' = SocketMetricsGuard_drop(socket_metrics, ws_task.app)
    /\ UNCHANGED <<running, remove_authorization_header, reqVars, permVars, apiVars, lockVars>>

\* The connection is ready for its next request: its tunnel, if it had one, is
\* over.
Close ==
    /\ running
    /\ pc \in {"done", "failed"}
    /\ ws_task.state \in {"none", "ended"}
    /\ req' = None
    /\ pc' = "idle"
    /\ ctx' = NoCtx
    /\ resp' = None
    /\ commits' = <<>>
    /\ observed' = <<>>
    /\ outbound' = <<>>
    /\ hist' = <<>>
    /\ ws_task' = NoTask
    /\ UNCHANGED <<running, remove_authorization_header, socket_metrics, permVars, apiVars, lockVars>>

\* ------------------------------------------------------------ refresher

\* A refresher that gives up at the first failed cycle.
update_perm_bails_at_first(error_count) == error_count >= 1

\* if error_count >= max_fetch_error_count { bail!(..) }
update_perm_bails(error_count) == error_count >= max_fetch_error_count

\* A write that keeps the users the previous map listed.
perm_write_merged(old, new) ==
    [p \in (DOMAIN old) \cup (DOMAIN new) |-> Get(old, p, {}) \cup Get(new, p, {})]

\* *perm_write = perm
perm_write(old, new) == new

\* A write that appends the new role strings to the ones already held.
role_write_appended(old, new) ==
    [u \in (DOMAIN old) \cup (DOMAIN new) |->
        LET before == Get(old, u, EmptyMap)
            after == Get(new, u, EmptyMap)
        IN  [a \in (DOMAIN before) \cup (DOMAIN after) |->
                IF a \in DOMAIN before /\ a \in DOMAIN after
                THEN before[a] \o "," \o after[a]
                ELSE Get(before, a, Get(after, a, ""))]]

\* *role_write = role
role_write(old, new) == new

\* update_perm: the sleep ends, get_perm runs over the URIs' answers; a failed
\* cycle is counted and, at the threshold, update_perm bails and main() exits.
RefreshFetch(answers) ==
    /\ running
    /\ refresher.pc = "sleep"
    /\ IF IsSome(get_perm(answers))
       THEN /\ refresher' = [refresher EXCEPT !.pc = "perm_write",
                                              !.update = get_perm(answers),
                                              !.fetched = answers]
            /\ UNCHANGED running
       ELSE /\ refresher' =
                [refresher EXCEPT !.error_count = @ + 1,
                                  !.pc = IF update_perm_bails(refresher.error_count + 1)
                                         THEN "bailed" ELSE "sleep"]
            /\ running' = ~update_perm_bails(refresher.error_count + 1)
    /\ UNCHANGED <<remove_authorization_header, ws_task, socket_metrics, reqVars, perm, role, apiVars, lockVars>>

\* A write lock that is not granted.
RwLock_write_starved(readers) == FALSE

\* RwLock::write().await resolves once no read guard is out.
RwLock_write(readers) == readers = 0

\* *perm_write = perm under the perm write lock (readers hold it only inside
\* has_perm, so the writer never waits across a step).
SwapPerm ==
    /\ running
    /\ refresher.pc = "perm_write"
    /\ perm' = perm_write(perm, Unwrap(refresher.update).perm)
    /\ refresher' = [refresher EXCEPT !.pc = "role_write"]
    /\ UNCHANGED <<running, remove_authorization_header, ws_task, socket_metrics, reqVars, role, apiVars, lockVars>>

\* *role_write = role under the role write lock, then error_count = 0.
SwapRole ==
    /\ running
    /\ refresher.pc = "role_write"
    /\ RwLock_write(role_readers)
    /\ role' = role_write(role, Unwrap(refresher.update).role)
    /\ refresher' = [pc |-> "sleep", error_count |-> 0, update |-> None,
                     fetched |-> <<>>, payloads |-> refresher.fetched]
    /\ UNCHANGED <<running, remove_authorization_header, ws_task, socket_metrics, reqVars, perm, apiVars, lockVars>>

\* ------------------------------------------------- API-definition stream

\* The objects applied and not yet delivered that the model follows at once.
MaxApplied == 2

\* RUNTIME_CONFIG.crds_namespaces of a deployment that restricts the watch.
Namespaces == <<"ns1", "ns2">>

\* The body of the loop of read_crds for what stream.try_next() returned, up
\* to api_lock.write().await; `applied` is what then remains to be delivered.
TryNext(item, applied) ==
    /\ running
    /\ crd_stream.pc = "reading"
    /\ crd_pending = None
    /\ CASE item.kind = "error" ->
              /\ running' = FALSE
              /\ crd_stream' = [crd_stream EXCEPT !.pc = "bailed", !.errors = @ + 1,
                                                  !.applied = applied]
              /\ UNCHANGED crd_pending
         [] item.kind = "none" ->
              /\ crd_stream' = [crd_stream EXCEPT !.applied = applied]
              /\ UNCHANGED <<running, crd_pending>>
         [] OTHER ->
              /\ UNCHANGED running
              /\ crd_stream' = [crd_stream EXCEPT !.applied = applied]
              /\ IF item.parses /\ ApiDefinition_check_fields(item.spec)
                 THEN crd_pending' = Some([api |-> build_uri(item.spec),
                                           node |-> Node_new(item.spec)])
                 ELSE UNCHANGED crd_pending
    /\ UNCHANGED <<remove_authorization_header, ws_task, socket_metrics, reqVars, permVars, api_map, lockVars>>

\* read_crds over a cluster-wide watch: one item of the stream.
ReadCrds(item) ==
    /\ crd_stream.namespaces = None
    /\ TryNext(item, crd_stream.applied)

\* The namespaces whose objects the running watcher delivers: with a namespace
\* set, the one update_api_namespaced has reached in its for loop.
Watched(ns) ==
    IF crd_stream.namespaces = None THEN TRUE
    ELSE /\ crd_stream.ns <= Len(Unwrap(crd_stream.namespaces))
         /\ ns = Unwrap(crd_stream.namespaces)[crd_stream.ns]

\* An object is applied in a namespace of the cluster, or its watch fails.
Apply(ns, item) ==
    /\ running
    /\ Cardinality(crd_stream.applied) < MaxApplied
    /\ <<ns, item>> \notin crd_stream.applied
    /\ crd_stream' = [crd_stream EXCEPT !.applied = @ \cup {<<ns, item>>}]
    /\ UNCHANGED <<running, remove_authorization_header, ws_task, socket_metrics, reqVars,
                   permVars, api_map, crd_pending, lockVars>>

\* read_crds over the watcher of a namespace: it yields an event of that
\* namespace.
Deliver(ns, item) ==
    /\ <<ns, item>> \in crd_stream.applied
    /\ Watched(ns)
    /\ TryNext(item, crd_stream.applied \ {<<ns, item>>})

\* The write guard is granted: api_write.insert(app_name, (api, node)).
ApiWrite ==
    /\ running
    /\ IsSome(crd_pending)
    /\ RwLock_write(api_readers)
    /\ api_map' = Put(api_map, Unwrap(crd_pending).api.app_name, Unwrap(crd_pending))
    /\ crd_pending' = None
    /\ UNCHANGED <<running, remove_authorization_header, ws_task, socket_metrics, reqVars, permVars, lockVars, crd_stream>>

LoopEnds == {"end_of_stream", "error"}

Tunnel ==
    \/ \E accepted \in BOOLEAN : TunnelStart(accepted)
    \/ \E event \in LoopEnds : ClientToServerEnds(event)
    \/ \E event \in LoopEnds : ServerToClientEnds(event)
    \/ TunnelJoin

\* The frames the two peers send through a live tunnel.
TunnelFrames ==
    \/ \E frame \in Frames, sent \in BOOLEAN : ClientFrame(frame, sent)
    \/ \E frame \in Frames : ServerFrame(frame)
    \/ \E sent \in BOOLEAN : ServerSent(sent)

Dispatcher ==
    \/ \E r \in Requests : Receive(r)
    \/ ApiLookup
    \/ PermCheck
    \/ RoleRead
    \/ \E answer \in BackendAnswers : HttpResult(answer)
    \/ \E answer \in HandshakeAnswers, upgraded \in BOOLEAN : WsResult(answer, upgraded)
    \/ Tunnel
    \/ Close

Refresher ==
    \/ \E a1 \in PermAnswers[1], a2 \in PermAnswers[2] : RefreshFetch(<<a1, a2>>)
    \/ SwapPerm
    \/ SwapRole

Consumer ==
    \/ \E item \in StreamItems : ReadCrds(item)
    \/ ApiWrite

Next == Dispatcher \/ TunnelFrames \/ Refresher \/ Consumer

\* The whole process: the server, update_perm and update_api joined by main().
Spec == Init /\ [][Next]_vars

\* The API map once the stream has delivered `items` and the consumer inserted
\* every one that passed check_fields.
RECURSIVE ApiMapAfter(_)
ApiMapAfter(items) ==
    IF items = <<>> THEN EmptyMap
    ELSE LET before == ApiMapAfter(SubSeq(items, 1, Len(items) - 1))
             item == items[Len(items)]
         IN  IF item.parses /\ ApiDefinition_check_fields(item.spec)
             THEN Put(before, item.spec.app_name,
                      [api |-> build_uri(item.spec), node |-> Node_new(item.spec)])
             ELSE before

\* The dispatcher and the refresher over an API map the consumer has filled and
\* no longer changes; the peers of a tunnel send no frame.
InitDispatch ==
    /\ Started
    /\ api_map \in { ApiMapAfter(<<StreamItem("object", TRUE, DefAAll),
                                   StreamItem("object", TRUE, DefB)>>),
                      ApiMapAfter(<<StreamItem("object", TRUE, DefAAll),
                                   StreamItem("object", TRUE, DefBadParam),
                                   StreamItem("object", TRUE, DefB),
                                   StreamItem("object", TRUE, DefAStrict)>>),
                      ApiMapAfter(<<StreamItem("object", TRUE, DefB),
                                   StreamItem("object", TRUE, DefAAllSpace)>>) }
    /\ crd_stream = CrdStream(None)

NextDispatch == Dispatcher \/ Refresher

SpecDispatch == InitDispatch /\ [][NextDispatch]_vars

\* ------------------------------------------------------ route tables

\* forward_strict definitions of one app, as the stream may deliver them.
RouteDef(endpoints) == ApiDefinition("/t", "h3", ForwardStrict(endpoints), "")

RouteDefs ==
    { RouteDef(<< Endpoint("/{i}/y", "GET", FALSE, TRUE), Endpoint("/x/z", "GET", FALSE, TRUE) >>),
      RouteDef(<< Endpoint("/x", "GET", FALSE, TRUE) >>),
      RouteDef(<< Endpoint("/x/", "GET", FALSE, TRUE) >>),
      RouteDef(<< Endpoint("/{i}/y/", "GET", FALSE, TRUE), Endpoint("/", "POST", FALSE, TRUE) >>),
      RouteDef(<< Endpoint("/x", "GET", FALSE, TRUE), Endpoint("/x", "GET", TRUE, TRUE) >>),
      RouteDef(<< Endpoint("/{i}", "GET", FALSE, TRUE), Endpoint("/x", "GET", TRUE, TRUE) >>),
      RouteDef(<< Endpoint("/e/{id}/p/", "GET", FALSE, TRUE) >>),
      RouteDef(<< Endpoint("/{a}/x{b}", "GET", FALSE, TRUE) >>),
      RouteDef(<< Endpoint("/x{b}", "GET", FALSE, TRUE) >>),
      RouteDef(<< Endpoint("/{a}{b}", "GET", FALSE, TRUE) >>),
      RouteDef(<< Endpoint("", "GET", FALSE, TRUE) >>),
      RouteDef(<< Endpoint("x", "GET", FALSE, TRUE) >>) }

RouteItems == { StreamItem("object", TRUE, d) : d \in RouteDefs }

RoutePaths ==
    { "/t/", "/t/x", "/t/x/", "/t/x/y", "/t/x/z", "/t/q/y", "/t/q/y/",
      "/t/e/42/p/", "/t/e/42/p", "/t/e/7/p/", "/t/a/xb" }

RouteRequests ==
    { Request(p, <<>>, m, Some(HeaderValue(TRUE, "Bearer 1")), FALSE) :
        p \in RoutePaths, m \in {"GET", "POST"} }

\* The consumer filling the route table of one app while the dispatcher resolves
\* requests against it.
NextRoute ==
    \/ \E item \in RouteItems : ReadCrds(item)
    \/ ApiWrite
    \/ \E r \in RouteRequests : Receive(r)
    \/ ApiLookup
    \/ PermCheck
    \/ Close

SpecRoute == Init /\ [][NextRoute]_vars

\* ------------------------------------------------------------ tunnels

TunnelRequests ==
    { Request("/b/w/", <<>>, "GET", Some(HeaderValue(TRUE, t)), u) :
        t \in {"Bearer 1", "Bearer 2"}, u \in BOOLEAN }

NextTunnel ==
    \/ \E r \in TunnelRequests : Receive(r)
    \/ ApiLookup
    \/ PermCheck
    \/ \E answer \in HandshakeAnswers, upgraded \in BOOLEAN : WsResult(answer, upgraded)
    \/ Tunnel
    \/ TunnelFrames
    \/ Close

\* The tokio runtime polls a spawned task whose join is ready; nothing obliges
\* a peer to send, to close or to fail.
SpecTunnel == InitDispatch /\ [][NextTunnel]_vars /\ WF_vars(TunnelJoin)

\* --------------------------------------------------- definition stream

AppliedItems ==
    { StreamItem("object", TRUE, d) : d \in {DefAAll, DefAStrict, DefBadName} }
    \cup { StreamItem("object", FALSE, DefB), StreamItem("error", FALSE, DefAAll) }

\* update_api with crds_namespaces set to two namespaces, or left out.
InitStream ==
    /\ Started
    /\ api_map = EmptyMap
    /\ crd_stream \in { CrdStream(None), CrdStream(Some(Namespaces)) }

NextStream ==
    \/ \E i \in DOMAIN Namespaces, item \in AppliedItems : Apply(Namespaces[i], item)
    \/ \E i \in DOMAIN Namespaces, item \in AppliedItems : Deliver(Namespaces[i], item)
    \/ ApiWrite

\* A watcher delivers every event of what it watches once read_crds is back at
\* try_next, and the write lock is granted once no reader holds it.
SpecStream ==
    /\ InitStream
    /\ [][NextStream]_vars
    /\ \A i \in DOMAIN Namespaces, item \in AppliedItems :
          SF_vars(Deliver(Namespaces[i], item))
    /\ WF_vars(ApiWrite)

\* ------------------------------------------------------- refresh cycles

\* update_perm alone, over the richer answers.
NextFetch ==
    \/ \E a1 \in FetchAnswers[1], a2 \in FetchAnswers[2] : RefreshFetch(<<a1, a2>>)
    \/ SwapPerm
    \/ SwapRole

SpecFetch == Init /\ [][NextFetch]_vars

\* ---------------------------------------------------------------- locks

\* A request forwarded over HTTP and an upgrade request, each holding its
\* guards across its backend call.
LockRequests ==
    { Request("/a/x", <<>>, "GET", Some(HeaderValue(TRUE, "Bearer 1")), FALSE),
      Request("/b/w/", <<>>, "GET", Some(HeaderValue(TRUE, "Bearer 2")), TRUE) }

LockItems == { StreamItem("object", TRUE, DefAStrict), StreamItem("object", TRUE, DefB) }

InitLocks ==
    /\ Started
    /\ api_map = ApiMapAfter(<<StreamItem("object", TRUE, DefAAll),
                               StreamItem("object", TRUE, DefB)>>)
    /\ crd_stream = CrdStream(None)

NextLocks ==
    \/ \E r \in LockRequests : Receive(r)
    \/ ApiLookup
    \/ PermCheck
    \/ RoleRead
    \/ \E answer \in BackendAnswers : HttpResult(answer)
    \/ \E answer \in HandshakeAnswers, upgraded \in BOOLEAN : WsResult(answer, upgraded)
    \/ Tunnel
    \/ Close
    \/ Refresher
    \/ \E item \in LockItems : ReadCrds(item)
    \/ ApiWrite

\* The runtime polls every task that can run, every backend call returns, and
\* the locks of tokio are fair: a writer that queued is served as soon as the
\* guards taken before it are dropped, whatever readers arrive later.
SpecLocks ==
    /\ InitLocks
    /\ [][NextLocks]_vars
    /\ WF_vars(ApiLookup)
    /\ WF_vars(PermCheck)
    /\ WF_vars(RoleRead)
    /\ WF_vars(\E answer \in BackendAnswers : HttpResult(answer))
    /\ WF_vars(\E answer \in HandshakeAnswers, upgraded \in BOOLEAN : WsResult(answer, upgraded))
    /\ WF_vars(SwapPerm)
    /\ SF_vars(SwapRole)
    /\ SF_vars(ApiWrite)

\* ---------------------------------------------------------- properties

InSeq(x, s) == \E i \in DOMAIN s : s[i] = x
IsPrefix(s, t) == Len(s) <= Len(t) /\ SubSeq(t, 1, Len(s)) = s

\* The steps of the pipeline that precede a backend connection.
Pipeline == <<"credential", "api", "endpoint", "permission">>

\* A request is being served, or has been and its connection is not yet reused.
Serving == IsSome(req)
ThePath == Unwrap(req).path
TheMethod == Unwrap(req).method
TheStatus == Unwrap(resp).status
TheHeaders == Unwrap(resp).headers
Answered == pc = "done" /\ IsSome(resp)
InPipeline == Serving /\ ThePath \notin {"/metrics", "/health"}

\* What the request carries, read off the request itself.
NoSecondSlash(path) == \A i \in 2..Len(path) : CharAt(path, i) # "/"
AppKey(path) ==
    SubSeq(path, 1, (CHOOSE i \in 2..Len(path) :
                        /\ CharAt(path, i) = "/"
                        /\ \A j \in 2..(i - 1) : CharAt(path, j) # "/") - 1)
HasCredential(r) ==
    IF IsSome(r.authorization) THEN Unwrap(r.authorization).utf8
    ELSE \E i \in DOMAIN r.query : r.query[i][1] = "_auth_token"
Credential(r) ==
    IF IsSome(r.authorization) THEN Unwrap(r.authorization).text
    ELSE "Bearer " \o r.query[CHOOSE i \in DOMAIN r.query :
                                /\ r.query[i][1] = "_auth_token"
                                /\ \A j \in 1..(i - 1) : r.query[j][1] # "_auth_token"][2]
Accepting(token) ==
    { i \in 1..Len(TOKEN_SOURCES) : IsSome(decode(token, TOKEN_SOURCES[i])) }
\* Non-OPTIONS pipeline request whose path has an app key and which carries a
\* credential.
WithCredential ==
    /\ InPipeline
    /\ TheMethod # "OPTIONS"
    /\ ~NoSecondSlash(ThePath)
    /\ HasCredential(Unwrap(req))

\* C1: the step that leaves the permission check passes exactly when token_id
\* is in perm[endpoint.permission] at that moment (an absent permission string
\* denies); a denied request gets 403 and opens no backend connection, and a
\* backend connection is only ever opened for a request that passed.
C1_PermissionDecides ==
    [][ /\ (pc = "perm" /\ pc' # "perm") =>
            LET endpoint == Unwrap(ctx.endpoint)
                member == /\ endpoint.permission \in DOMAIN perm
                          /\ Unwrap(ctx.claims).token_id \in perm[endpoint.permission]
            IN  /\ member <=> InSeq("permission", hist')
                /\ member => ~(IsSome(resp') /\ Unwrap(resp').status = 403)
                /\ ~member => /\ resp' = Some(get_response(403, FORBIDDEN))
                              /\ outbound' = <<>>
                              /\ pc' = "done"
        /\ (~InSeq("permission", hist) /\ InSeq("permission", hist')) => pc = "perm"
        /\ outbound' # <<>> => InSeq("permission", hist')
      ]_vars

\* A request was denied at the permission step because the cache has no entry
\* for the permission string of its endpoint.
C1_Witness ==
    /\ Answered
    /\ TheStatus = 403
    /\ hist = <<"credential", "api", "endpoint">>
    /\ Unwrap(ctx.endpoint).permission \notin DOMAIN perm

\* C2: a request with a valid token that matched a forward_strict endpoint
\* declared with check_permission = false has been forwarded once it is
\* answered, whatever the permission cache holds.
C2_UncheckedEndpointForwarded ==
    ( /\ Answered
      /\ IsSome(ctx.endpoint)
      /\ ~Unwrap(ctx.endpoint).check_permission
      /\ ~Unwrap(ctx.endpoint).is_websocket
      /\ UriParses(ctx.http_uri_string) )
    => outbound # <<>>

\* C3: the steps a request has passed are always an initial part of credential,
\* API lookup, endpoint resolution, permission check; a backend connection
\* exists only for a request that carries a credential and passed all four.
C3_SequentialPipeline ==
    /\ IsPrefix(hist, Pipeline)
    /\ Len(outbound) <= 1
    /\ (outbound # <<>> \/ pc \in {"role", "http", "ws"}) =>
          /\ hist = Pipeline
          /\ HasCredential(Unwrap(req))
          /\ IsSome(ctx.claims)
          /\ IsSome(ctx.api)
          /\ IsSome(ctx.endpoint)

\* The backend WebSocket handshake of a request is in flight.
C3_Witness ==
    /\ pc = "ws"
    /\ Len(outbound) = 1
    /\ outbound[1].kind = "ws"
    /\ hist = Pipeline

\* C4: an answered non-OPTIONS pipeline request has the status of its first
\* failing step: 404 without a second slash, 403 without a usable credential,
\* 403 for a token every source rejects, 404 for an app the API map lacks, 404
\* without a matching route, 403 when the permission check did not pass.
\* (The API map is the one the lookup saw: it does not change here.)
C4_FirstFailingStepDecides ==
    (Answered /\ InPipeline /\ TheMethod # "OPTIONS") =>
        LET r == Unwrap(req)
            app == AppKey(r.path)
            rest == From(r.path, Len(app))
        IN  IF NoSecondSlash(r.path) THEN TheStatus = 404 /\ outbound = <<>>
            ELSE IF ~HasCredential(r) THEN TheStatus = 403 /\ outbound = <<>>
            ELSE IF Accepting(From(Credential(r), 7)) = {} THEN TheStatus = 403 /\ outbound = <<>>
            ELSE IF app \notin DOMAIN api_map THEN TheStatus = 404 /\ outbound = <<>>
            ELSE IF /\ api_map[app].api.mode.kind = "forward_strict"
                    /\ ~IsSome(match_path(api_map[app].node, rest, r.method))
                 THEN TheStatus = 404 /\ outbound = <<>>
            ELSE IF ~InSeq("permission", hist) THEN TheStatus = 403 /\ outbound = <<>>
            ELSE TRUE

\* A request without credential to an app the API map lacks was answered 403.
C4_Witness ==
    /\ Answered
    /\ ThePath = "/d/x"
    /\ TheMethod = "GET"
    /\ ~HasCredential(Unwrap(req))
    /\ "/d" \notin DOMAIN api_map
    /\ TheStatus = 403

\* C5: an OPTIONS request to a path other than /metrics and /health is answered
\* 204 with the permissive CORS headers in the step that receives it: no
\* credential is read, no API looked up, no permission checked, no backend
\* contacted.
C5_Preflight ==
    (InPipeline /\ TheMethod = "OPTIONS") =>
        /\ Answered
        /\ TheStatus = 204
        /\ Unwrap(resp).body = NO_CONTENT
        /\ \A h \in {"access-control-allow-origin", "access-control-allow-headers",
                     "access-control-allow-methods"} :
              h \in DOMAIN TheHeaders /\ TheHeaders[h] = "*"
        /\ hist = <<>>
        /\ outbound = <<>>
        /\ ctx.claims = None
        /\ ctx.api = None
        /\ ctx.endpoint = None

\* A preflight to the path "/" (no second slash, no credential) was answered 204.
C5_Witness ==
    /\ Answered
    /\ ThePath = "/"
    /\ TheMethod = "OPTIONS"
    /\ Unwrap(req).authorization = None
    /\ TheStatus = 204

\* C6: a request to exactly /health is answered 200 "Ok" with CORS headers and
\* one to exactly /metrics gets the exposition, whatever it carries and whatever
\* the caches hold; neither commits to the HTTP metric families nor enters the
\* pipeline.
C6_HealthAndMetricsBypass ==
    (Serving /\ ThePath \in {"/health", "/metrics"}) =>
        /\ Answered
        /\ TheStatus = 200
        /\ ThePath = "/health" =>
              /\ Unwrap(resp).body = OK
              /\ "access-control-allow-origin" \in DOMAIN TheHeaders
              /\ TheHeaders["access-control-allow-origin"] = "*"
        /\ ThePath = "/metrics" => Unwrap(resp).body = "exposition"
        /\ commits = <<>>
        /\ hist = <<>>
        /\ outbound = <<>>

\* A credential-less POST to /health was answered.
C6_Witness ==
    /\ Answered
    /\ ThePath = "/health"
    /\ TheMethod = "POST"
    /\ ~HasCredential(Unwrap(req))
    /\ commits = <<>>

\* C7: every response the gateway originates (204, 403, 404, 426, 502, the
\* /health 200) carries Allow-Origin *, Allow-Headers *, Allow-Methods *,
\* Expose-Headers "Location, Retry-After", Allow-Credentials true and
\* Max-Age 86400.
C7_FullCorsSet ==
    ( /\ Answered
      /\ \/ ThePath = "/health"
         \/ /\ InPipeline
            /\ TheStatus \in {204, 403, 404, 426, 502}
            /\ Unwrap(resp).body \in {NO_CONTENT, FORBIDDEN, NOT_FOUND, BAD_GATEWAY} )
    => /\ { "access-control-allow-origin", "access-control-allow-headers",
            "access-control-allow-methods", "access-control-expose-headers",
            "access-control-allow-credentials", "access-control-max-age" }
          \subseteq DOMAIN TheHeaders
       /\ TheHeaders["access-control-allow-origin"] = "*"
       /\ TheHeaders["access-control-allow-headers"] = "*"
       /\ TheHeaders["access-control-allow-methods"] = "*"
       /\ TheHeaders["access-control-expose-headers"] = "Location, Retry-After"
       /\ TheHeaders["access-control-allow-credentials"] = "true"
       /\ TheHeaders["access-control-max-age"] = "86400"

\* C8: a pipeline request whose handler has returned has a response and exactly
\* one metrics commit, labelled with its app key ("" when none was extracted),
\* its method and the status of the response returned.
C8_OneCommitPerResponse ==
    (InPipeline /\ pc \in {"done", "failed"}) =>
        /\ IsSome(resp)
        /\ commits = << <<ctx.app, TheMethod, TheStatus>> >>

\* C9: a credential that does not start with "Bearer " or is not longer than
\* these 7 bytes is rejected by get_claims, and its request answered 403.
C9_BearerPrefixRequired ==
    WithCredential =>
        LET authorization == Credential(Unwrap(req))
        IN  (~StartsWith(authorization, "Bearer ") \/ Len(authorization) <= 7) =>
                /\ get_claims(authorization) = None
                /\ Answered
                /\ TheStatus = 403

\* C10: for a credential longer than the prefix, get_claims returns the claims
\* and token_type of the first source in configured order that accepts the
\* token, whichever sources rejected it before, and None exactly when every
\* source rejects it; the dispatcher carries on with that result.
C10_FirstAcceptingSource ==
    (WithCredential /\ Len(Credential(Unwrap(req))) > AUTH_SHIFT) =>
        LET authorization == Credential(Unwrap(req))
            token == From(authorization, AUTH_SHIFT)
        IN  IF Accepting(token) = {}
            THEN /\ get_claims(authorization) = None
                 /\ ctx.claims = None
                 /\ Answered
                 /\ TheStatus = 403
            ELSE LET first == CHOOSE i \in Accepting(token) :
                                  \A j \in Accepting(token) : i <= j
                     claims == Unwrap(decode(token, TOKEN_SOURCES[first]))
                 IN  /\ get_claims(authorization) =
                            Some(<<claims, TOKEN_SOURCES[first].token_type>>)
                     /\ ctx.claims = Some(claims)
                     /\ ctx.token_type = TOKEN_SOURCES[first].token_type

\* A token that the first two sources reject and the third accepts is being
\* served under the third source's token_type.
C10_Witness ==
    /\ WithCredential
    /\ Credential(Unwrap(req)) = "Bearer 3"
    /\ Accepting("3") = {3}
    /\ pc = "api"
    /\ ctx.token_type = TOKEN_SOURCES[3].token_type

\* The value of the first _auth_token pair of a query, when there is one.
HasQueryToken(r) == \E i \in DOMAIN r.query : r.query[i][1] = "_auth_token"
FirstQueryToken(r) ==
    r.query[CHOOSE i \in DOMAIN r.query :
                /\ r.query[i][1] = "_auth_token"
                /\ \A j \in 1..(i - 1) : r.query[j][1] # "_auth_token"][2]

\* The outcome of the credential step is the one get_claims gives for `text`.
DecidedBy(text) ==
    IF get_claims(text) = None
    THEN Answered /\ TheStatus = 403 /\ hist = <<>> /\ ctx.claims = None
    ELSE /\ ctx.claims = Some(Unwrap(get_claims(text))[1])
         /\ InSeq("credential", hist)

\* C11: for a non-OPTIONS pipeline request with an app key, a present header
\* alone decides (403 when it is not UTF-8 or its token is rejected, whatever
\* the query holds); the first _auth_token of the query, prefixed with
\* "Bearer ", decides only when the header is absent; with neither, 403.
C11_HeaderBeforeQuery ==
    (InPipeline /\ TheMethod # "OPTIONS" /\ ~NoSecondSlash(ThePath)) =>
        LET r == Unwrap(req)
        IN  IF IsSome(r.authorization)
            THEN IF Unwrap(r.authorization).utf8
                 THEN DecidedBy(Unwrap(r.authorization).text)
                 ELSE Answered /\ TheStatus = 403 /\ hist = <<>> /\ ctx.claims = None
            ELSE IF HasQueryToken(r)
                 THEN DecidedBy("Bearer " \o FirstQueryToken(r))
                 ELSE Answered /\ TheStatus = 403 /\ hist = <<>> /\ ctx.claims = None

\* A request whose header carries an expired token and whose query carries a
\* valid one was answered 403.
C11_Witness ==
    /\ Answered
    /\ Unwrap(req).authorization = Some(HeaderValue(TRUE, "Bearer 4"))
    /\ HasQueryToken(Unwrap(req))
    /\ get_claims("Bearer " \o FirstQueryToken(Unwrap(req))) # None
    /\ TheStatus = 403
    /\ hist = <<>>

\* The node that taking, for each of the first k segments, the literal child
\* when there is one and otherwise the param child, leads to from root.
RECURSIVE Reached(_, _, _)
Reached(root, segments, k) ==
    IF k = 0 THEN Some(root)
    ELSE LET before == Reached(root, segments, k - 1)
         IN  IF before = None THEN None
             ELSE IF segments[k] \in DOMAIN Unwrap(before).sub_route
                  THEN Some(Unwrap(before).sub_route[segments[k]])
                  ELSE Unwrap(before).param

Stored(root, path, method) ==
    LET segments == Split(strip_path(path), "/")
        node == Reached(root, segments, Len(segments))
    IN  IF node # None /\ method \in DOMAIN Unwrap(node).endpoint_set
        THEN Some(Unwrap(node).endpoint_set[method])
        ELSE None

\* C12: for every live trie, path and method, match_path returns an endpoint
\* exactly when the walk that takes the literal child where one exists, and
\* otherwise the param child, ends on a node with an entry for the method, and
\* it returns that entry; the dispatcher resolves the request to it.
C12_GreedyWalk ==
    /\ \A app \in DOMAIN api_map : \A p \in RoutePaths : \A m \in {"GET", "POST"} :
          match_path(api_map[app].node, From(p, Len(app)), m)
              = Stored(api_map[app].node, From(p, Len(app)), m)
    /\ (pc = "perm" /\ Unwrap(ctx.api).mode.kind = "forward_strict") =>
          ctx.endpoint = Stored(Node_new(Unwrap(ctx.api)), ctx.forwarded_path, TheMethod)

\* With /{i}/y and /x/z declared, GET /x/y took the literal child x and found
\* no route: 404.
C12_Witness ==
    /\ Answered
    /\ ThePath = "/t/x/y"
    /\ TheMethod = "GET"
    /\ "/t" \in DOMAIN api_map
    /\ api_map["/t"].api.mode.endpoints =
          << Endpoint("/{i}/y", "GET", FALSE, TRUE), Endpoint("/x/z", "GET", FALSE, TRUE) >>
    /\ TheStatus = 404
    /\ hist = <<"credential", "api">>

\* The other form of a path: without its trailing slash when it has one, with
\* one when it has none.  The root path has one form.
OtherForm(path) ==
    IF Len(path) < 2 THEN path
    ELSE IF CharAt(path, Len(path)) = "/" THEN SubSeq(path, 1, Len(path) - 1)
    ELSE path \o "/"

OtherForms(api) ==
    [api EXCEPT !.mode.endpoints =
        [i \in DOMAIN @ |-> [@[i] EXCEPT !.path = OtherForm(@)]]]

\* C13: for every live trie, path and method, the request path with and
\* without its trailing slash resolve alike, and alike against the trie built
\* from the same templates written in their other form.
C13_TrailingSlash ==
    \A app \in DOMAIN api_map :
        LET entry == api_map[app]
            other == Node_new(OtherForms(entry.api))
        IN  \A p \in RoutePaths : \A m \in {"GET", "POST"} :
                LET path == From(p, Len(app))
                    found == match_path(entry.node, path, m)
                IN  /\ match_path(entry.node, OtherForm(path), m) = found
                    /\ IsSome(match_path(other, path, m)) = IsSome(found)
                    /\ IsSome(match_path(other, OtherForm(path), m)) = IsSome(found)

\* GET /x was resolved to the endpoint declared as /x/.
C13_Witness ==
    /\ pc = "perm"
    /\ ThePath = "/t/x"
    /\ ctx.forwarded_path = "/x"
    /\ Unwrap(ctx.endpoint).path = "/x/"

\* Template t, each {param} read as one non-empty segment, matches path u.
IsParamSegment(seg) ==
    Len(seg) >= 2 /\ CharAt(seg, 1) = "{" /\ CharAt(seg, Len(seg)) = "}"
Subsumes(t, u) ==
    LET ts == Split(t, "/")
        us == Split(u, "/")
    IN  /\ \E i \in DOMAIN ts : IsParamSegment(ts[i])
        /\ Len(ts) = Len(us)
        /\ \A i \in DOMAIN ts :
              IF IsParamSegment(ts[i]) THEN us[i] # "" ELSE ts[i] = us[i]

\* C14: no live forward_strict entry declares two endpoints with the same path
\* and method, nor a parameterized path that matches a sibling path of the same
\* method; every declared endpoint is the one its own trie node stores.
C14_NoConflictInLiveTrie ==
    \A app \in DOMAIN api_map :
        LET entry == api_map[app]
            endpoints == entry.api.mode.endpoints
        IN  entry.api.mode.kind = "forward_strict" =>
                \A i \in DOMAIN endpoints : \A j \in DOMAIN endpoints :
                    (i # j /\ endpoints[i].method = endpoints[j].method) =>
                        /\ endpoints[i].path # endpoints[j].path
                        /\ ~Subsumes(endpoints[i].path, endpoints[j].path)

\* What a path must satisfy to be a valid template.
EveryParamFollowsSlash(path) ==
    \A i \in 1..Len(path) :
        CharAt(path, i) = "{" => (i > 1 /\ CharAt(path, i - 1) = "/")
NoBraceInContent(path) ==
    \A i \in 1..Len(path) :
        ParamEnd(path, i) # 0 =>
            \A k \in (i + 1)..(ParamEnd(path, i) - 1) : CharAt(path, k) \notin {"{", "}"}

\* C15: every endpoint of a definition that passed validation has a non-empty
\* path that begins with '/', in which every {...}, the first and the later
\* ones, directly follows a '/' and holds no brace.
C15_TemplatesValidated ==
    \A app \in DOMAIN api_map :
        LET endpoints == api_map[app].api.mode.endpoints
        IN  \A i \in DOMAIN endpoints :
                /\ endpoints[i].path # ""
                /\ CharAt(endpoints[i].path, 1) = "/"
                /\ EveryParamFollowsSlash(endpoints[i].path)
                /\ NoBraceInContent(endpoints[i].path)

\* The request was resolved against a forward_all definition.
ForwardAllResolved ==
    /\ Serving
    /\ IsSome(ctx.api)
    /\ Unwrap(ctx.api).mode.kind = "forward_all"

\* The synthesized endpoint of a forward_all request, and no WebSocket branch.
SynthesizedEndpoint ==
    /\ ctx.endpoint =
          Some([path |-> ctx.forwarded_path, method |-> TheMethod, is_websocket |-> FALSE,
                permission |-> From(ctx.app, 1) \o "::" \o TheMethod \o "::FULL_ACCESS",
                check_permission |-> TRUE])
    /\ pc # "ws"
    /\ ~ctx.tunnel
    /\ \A i \in DOMAIN outbound : outbound[i].kind = "http"
    /\ Answered => TheStatus \notin {426, 101}

ForwardedOverHttp == pc = "role" \/ (outbound # <<>> /\ outbound[1].kind = "http")

\* C16 as stated: a forward_all request resolves to the synthesized endpoint,
\* never enters the WebSocket branch, and once past the permission step is
\* forwarded over HTTP exactly when the token held the FULL_ACCESS permission.
C16_ForwardAllAsStated ==
    ForwardAllResolved =>
        /\ SynthesizedEndpoint
        /\ pc \in {"role", "http", "done"} =>
              (ForwardedOverHttp <=> InSeq("permission", hist))

\* C16: as above, but forwarded exactly when the token held the permission and
\* the backend URI built from host, forward_path and the request parses; with
\* the permission and an unparsable URI the answer is 404.
C16_ForwardAll ==
    ForwardAllResolved =>
        /\ SynthesizedEndpoint
        /\ pc \in {"role", "http", "done"} =>
              /\ ForwardedOverHttp <=>
                    (InSeq("permission", hist) /\ UriParses(ctx.http_uri_string))
              /\ (InSeq("permission", hist) /\ ~UriParses(ctx.http_uri_string)) =>
                    (Answered /\ TheStatus = 404)
              /\ ~InSeq("permission", hist) => (Answered /\ TheStatus = 403)

\* An upgrade request to a forward_all app is being forwarded over HTTP.
C16_Witness ==
    /\ ForwardAllResolved
    /\ Unwrap(req).upgrade
    /\ pc = "http"
    /\ outbound[1].kind = "http"
    /\ Unwrap(ctx.endpoint).permission = "a::GET::FULL_ACCESS"

\* The template with every {name} rewritten to {}: from each '{', up to the
\* first '}' that follows it.
RECURSIVE Collapsed(_)
Collapsed(t) ==
    LET opens == { i \in 1..Len(t) :
                     CharAt(t, i) = "{" /\ \E j \in (i + 1)..Len(t) : CharAt(t, j) = "}" }
    IN  IF opens = {} THEN t
        ELSE LET i == CHOOSE i \in opens : \A k \in opens : i <= k
                 j == CHOOSE j \in (i + 1)..Len(t) :
                        /\ CharAt(t, j) = "}"
                        /\ \A k \in (i + 1)..(j - 1) : CharAt(t, k) # "}"
             IN  SubSeq(t, 1, i - 1) \o "{}" \o Collapsed(SubSeq(t, j + 1, Len(t)))

\* C17: the permission string a forward_strict request is checked against is
\* "<app without its slash>::<method>::<template, every {name} as {}>" for a
\* template the definition declares under the method: the same for every
\* parameter value and with or without a trailing slash on the request.
C17_PermissionOfTemplate ==
    (pc = "perm" /\ Unwrap(ctx.api).mode.kind = "forward_strict") =>
        LET endpoint == Unwrap(ctx.endpoint)
            declared == Unwrap(ctx.api).mode.endpoints
        IN  /\ \E i \in DOMAIN declared :
                  /\ declared[i].path = endpoint.path
                  /\ declared[i].method = TheMethod
            /\ endpoint.permission =
                  From(ctx.app, 1) \o "::" \o TheMethod \o "::" \o Collapsed(endpoint.path)
            /\ endpoint.path = "/e/{id}/p/" => endpoint.permission = "t::GET::/e/{}/p/"

\* GET /e/42/p, without the trailing slash of the template, is about to be
\* checked against t::GET::/e/{}/p/.
C17_Witness ==
    /\ pc = "perm"
    /\ ThePath = "/t/e/42/p"
    /\ Unwrap(ctx.endpoint).path = "/e/{id}/p/"
    /\ Unwrap(ctx.endpoint).permission = "t::GET::/e/{}/p/"

\* C18: no request forwarded over HTTP carries the client's Authorization
\* header to the backend, in any build.
C18_AuthorizationStripped ==
    \A i \in DOMAIN outbound :
        outbound[i].kind = "http" => "authorization" \notin DOMAIN outbound[i].headers

\* The request matched a websocket-marked endpoint and passed the permission
\* check.
WebSocketPermitted ==
    /\ Serving
    /\ IsSome(ctx.endpoint)
    /\ Unwrap(ctx.endpoint).is_websocket
    /\ InSeq("permission", hist)

C20_TunnelEndsWithEitherLoop ==
    ( /\ ws_task.state = "alive"
      /\ (ws_task.client_to_server \in {"ok", "err"} \/
          ws_task.server_to_client \in {"ok", "err"}) )
    ~> (ws_task.state # "alive")

\* The tunnels of `app` whose guard is alive.
LiveTunnels(app) == IF ws_task.state = "alive" /\ ws_task.app = app THEN 1 ELSE 0

SocketApps == (DOMAIN socket_metrics.clients) \cup {ws_task.app}

\* C21: the clients gauge of every app equals the number of its live tunnels,
\* so it is never negative and is back at its pre-open value once a tunnel has
\* ended, whichever way it ended.
C21_ClientsGaugeCountsLiveTunnels ==
    \A app \in SocketApps :
        /\ Get(socket_metrics.clients, app, 0) = LiveTunnels(app)
        /\ Get(socket_metrics.clients, app, 0) >= 0
        /\ (ws_task.app = app => (ws_task.guard <=> ws_task.state = "alive"))

\* A tunnel that was opened has ended by a panic and its gauge is back at 0.
C21_Witness ==
    /\ ws_task.state = "ended"
    /\ ws_task.panicked
    /\ ws_task.app \in DOMAIN socket_metrics.clients
    /\ socket_metrics.clients[ws_task.app] = 0

\* C22: every frame read from a peer has been counted and then written to the
\* other peer, but for a last frame whose write is pending, or failed, after
\* which the loop closed the write half it forwards to and ended.
C22_FramesCountedThenForwarded ==
    /\ Get(socket_metrics.message_received, ws_task.app, 0) >= Len(ws_task.from_client)
    /\ Get(socket_metrics.message_sent, ws_task.app, 0) >= Len(ws_task.from_server)
    /\ IsPrefix(ws_task.to_server, ws_task.from_client)
    /\ IsPrefix(ws_task.to_client, ws_task.from_server)
    /\ ws_task.to_server # ws_task.from_client =>
          /\ Len(ws_task.from_client) = Len(ws_task.to_server) + 1
          /\ ws_task.client_to_server = "err"
          /\ ws_task.tx_server_closed
    /\ ws_task.to_client # ws_task.from_server =>
          /\ Len(ws_task.from_server) = Len(ws_task.to_client) + 1
          /\ \/ ws_task.server_to_client = "sending"
             \/ ws_task.server_to_client = "err" /\ ws_task.tx_client_closed

\* A cycle of update_perm ends in failure / in success with this step.
CycleFailed ==
    /\ refresher.pc = "sleep"
    /\ refresher'.pc \in {"sleep", "bailed"}
    /\ refresher' # refresher

CycleSucceeded == refresher.pc = "role_write" /\ refresher'.pc = "sleep"

\* C23: the failure count grows by one with every failed cycle, returns to 0
\* with every successful one and changes at no other step, so it is the number
\* of consecutive failures; the refresher bails, and the process with it, at
\* the very failure that brings the count to max_fetch_error_count, never below.
C23_BailsAtThreshold ==
    [][ /\ CycleFailed =>
              /\ refresher'.error_count = refresher.error_count + 1
              /\ refresher'.pc = "bailed" <=>
                    refresher'.error_count = max_fetch_error_count
              /\ running' <=> refresher'.pc # "bailed"
        /\ CycleSucceeded => refresher'.error_count = 0 /\ running'
        /\ ~CycleFailed /\ ~CycleSucceeded =>
              /\ refresher'.error_count = refresher.error_count
              /\ refresher.pc # "bailed" => refresher'.pc # "bailed"
        /\ running => refresher.error_count < max_fetch_error_count
      ]_vars

\* The refresher bailed, at the threshold, and the process stopped.
C23_Witness ==
    /\ refresher.pc = "bailed"
    /\ refresher.error_count = max_fetch_error_count
    /\ ~running

\* The maps get_perm builds from the payloads of the last completed cycle.
BuiltFromLastCycle == Unwrap(get_perm(refresher.payloads))

\* No cycle is between its fetch and the end of its two writes.
BetweenCycles == refresher.pc \in {"sleep", "bailed"}

\* C24: between cycles perm and role are exactly the maps built from the
\* payloads of the last successful cycle, with nothing left of earlier ones;
\* a permission step taken then answers 403 to a user those payloads do not
\* list under the permission of the endpoint.
C24_CacheRebuiltEntirely ==
    [][ /\ BetweenCycles =>
              /\ perm = BuiltFromLastCycle.perm
              /\ role = BuiltFromLastCycle.role
        /\ (BetweenCycles /\ pc = "perm" /\ pc' # "perm"
              /\ ~has_perm(BuiltFromLastCycle.perm, Unwrap(ctx.endpoint).permission,
                           Unwrap(ctx.claims).token_id))
           => resp' = Some(get_response(403, FORBIDDEN))
      ]_vars

\* u1 is refused on the forward_all app /a while the last payloads list nobody
\* under a::GET::FULL_ACCESS, which the other payload of that URI grants to u1.
C24_Witness ==
    /\ Answered
    /\ TheStatus = 403
    /\ hist = <<"credential", "api", "endpoint">>
    /\ BetweenCycles
    /\ refresher.payloads[1] = Some(<<>>)
    /\ Unwrap(ctx.endpoint).permission = "a::GET::FULL_ACCESS"
    /\ Unwrap(ctx.claims).token_id = "u1"
    /\ \E a1 \in PermAnswers[1] :
          /\ IsSome(a1)
          /\ has_perm(Unwrap(get_perm(<<a1, refresher.payloads[2]>>)).perm,
                      "a::GET::FULL_ACCESS", "u1")

\* The cycle in progress fetched the payloads of the last completed one.
SamePayloads == refresher.fetched = refresher.payloads

\* C25: a successful cycle whose payloads are those of the previous successful
\* cycle changes neither perm nor role, role strings included.
C25_RefreshIdempotent ==
    [][ /\ (refresher.pc = "perm_write" /\ refresher'.pc = "role_write" /\ SamePayloads)
              => perm' = perm /\ role' = role
        /\ (refresher.pc = "role_write" /\ refresher'.pc = "sleep" /\ SamePayloads)
              => perm' = perm /\ role' = role
      ]_vars

\* The second of two cycles with the same payloads has written perm, which is
\* what it was, and is about to write role, where u1 holds two roles on app a.
C25_Witness ==
    /\ refresher.pc = "role_write"
    /\ SamePayloads
    /\ perm = Unwrap(refresher.update).perm
    /\ "u1" \in DOMAIN role
    /\ "a" \in DOMAIN role["u1"]
    /\ role["u1"]["a"] = "admin,dev"

\* What the live map holds for a definition: the definition with its two
\* derived URIs, and the trie built from it.
StoredEntry(d) ==
    [api |-> [d EXCEPT !.uri_http = "http://" \o d.host \o d.forward_path,
                       !.uri_ws = "ws://" \o d.host \o d.forward_path],
     node |-> Node_new(d)]

\* The validation as the specification words it: the app_name begins with '/',
\* has no other '/', has at least 2 characters and is neither /metrics nor
\* /health; the host is valid; the forward_path is empty or begins with '/';
\* every endpoint passes the endpoint validation.
ValidAsStated(item) ==
    /\ item.kind = "object"
    /\ item.parses
    /\ LET d == item.spec
       IN  /\ Len(d.app_name) >= 2
           /\ CharAt(d.app_name, 1) = "/"
           /\ \A i \in 2..Len(d.app_name) : CharAt(d.app_name, i) # "/"
           /\ d.app_name \notin {"/metrics", "/health"}
           /\ d.host # ""
           /\ \A i \in 1..Len(d.host) : CharAt(d.host, i) # " "
           /\ (d.forward_path = "" \/ CharAt(d.forward_path, 1) = "/")
           /\ d.mode.kind = "forward_strict" =>
                 \A i \in 1..Len(d.mode.endpoints) :
                     Endpoint_check_fields(d.mode.endpoints[i])

\* This step is read_crds taking `item` of namespace `ns` from its stream.
Delivery(ns, item) ==
    /\ <<ns, item>> \in crd_stream.applied
    /\ crd_stream'.applied = crd_stream.applied \ {<<ns, item>>}

C27_StreamErrorSurvived ==
    crd_stream.errors > 0 => (running /\ crd_stream.pc = "reading")

\* C28: with a namespace set configured, a valid definition of /a applied in
\* any of its namespaces is eventually in the live map, as long as the process
\* runs.
C28_EveryNamespaceWatched ==
    \A i \in DOMAIN Namespaces :
        ( /\ crd_stream.namespaces = Some(Namespaces)
          /\ <<Namespaces[i], StreamItem("object", TRUE, DefAAll)>> \in crd_stream.applied )
        ~> ("/a" \in DOMAIN api_map \/ ~running)

\* C29: a request opens at most one backend connection; once the forwarded
\* HTTP request has returned, the response is 502 Bad Gateway if the transport
\* failed and otherwise the backend's response, status and body as received,
\* with access-control-allow-origin set to "*", after that one attempt.
C29_ForwardedOnce ==
    /\ Len(outbound) <= 1
    /\ IsSome(ctx.backend) =>
          /\ Len(outbound) = 1
          /\ outbound[1].kind = "http"
          /\ Answered
          /\ LET answer == Unwrap(ctx.backend)
             IN  IF IsSome(answer)
                 THEN LET backend == BackendResponse(Unwrap(answer))
                      IN  /\ TheStatus = Unwrap(answer)
                          /\ Unwrap(resp).body = backend.body
                          /\ DOMAIN TheHeaders =
                                (DOMAIN backend.headers) \cup {"access-control-allow-origin"}
                          /\ \A h \in DOMAIN TheHeaders :
                                TheHeaders[h] = IF h = "access-control-allow-origin" THEN "*"
                                                ELSE backend.headers[h]
                 ELSE /\ TheStatus = 502
                      /\ Unwrap(resp).body = BAD_GATEWAY

\* The backend answered 403 and the client received that 403 with the origin
\* header replaced.
C29_Witness ==
    /\ Answered
    /\ ctx.backend = Some(Some(403))
    /\ TheStatus = 403
    /\ TheHeaders["access-control-allow-origin"] = "*"

\* C30: while the dispatcher waits for the backend, in the forwarded HTTP
\* request or in the WebSocket handshake, it holds no read guard.
C30_NoGuardAcrossBackendIO ==
    pc \in {"http", "ws"} => (api_readers = 0 /\ role_readers = 0)

\* C31: the dispatcher never holds a read guard on the API map together with
\* one on the role map.
C31_NoNestedLocks == ~(api_readers > 0 /\ role_readers > 0)

\* The records of all the answers of a fetch, in the order get_perm reads them.
RECURSIVE Records(_)
Records(answers) ==
    IF answers = <<>> THEN <<>>
    ELSE Unwrap(Head(answers)) \o Records(Tail(answers))

\* s matches ^([^:]+)::roles::(.*)$ in its entirety: the text before its first
\* ':' is not empty and "::roles::" follows it at once.
FirstColon(s) == CHOOSE k \in 1..Len(s) : CharAt(s, k) = ":" /\ \A j \in 1..(k - 1) : CharAt(s, j) # ":"

MatchesEntirely(s) ==
    /\ \E k \in 1..Len(s) : CharAt(s, k) = ":"
    /\ FirstColon(s) > 1
    /\ FirstColon(s) + Len("::roles::") - 1 <= Len(s)
    /\ SubSeq(s, FirstColon(s), FirstColon(s) + Len("::roles::") - 1) = "::roles::"

FirstGroup(s) == SubSeq(s, 1, FirstColon(s) - 1)

SecondGroup(s) == From(s, FirstColon(s) + Len("::roles::") - 1)

\* The second groups of the records that list user u under a role of app a.
RECURSIVE RolesListed(_, _, _)
RolesListed(records, u, a) ==
    IF records = <<>> THEN <<>>
    ELSE LET r == Head(records)
         IN  (IF /\ u \in r.user_id
                 /\ MatchesEntirely(r.role_name)
                 /\ FirstGroup(r.role_name) = a
              THEN <<SecondGroup(r.role_name)>> ELSE <<>>)
             \o RolesListed(Tail(records), u, a)

RECURSIVE CommaJoin(_)
CommaJoin(strings) ==
    IF strings = <<>> THEN ""
    ELSE IF Len(strings) = 1 THEN strings[1]
    ELSE strings[1] \o "," \o CommaJoin(Tail(strings))

RecordsOfLastCycle == Records(refresher.payloads)

RoleApps ==
    { FirstGroup(RecordsOfLastCycle[i].role_name) :
        i \in { j \in DOMAIN RecordsOfLastCycle : MatchesEntirely(RecordsOfLastCycle[j].role_name) } }

RoleUsers == UNION { RecordsOfLastCycle[i].user_id : i \in DOMAIN RecordsOfLastCycle }

\* C32: after a fetch role[user][app] is defined exactly for the pairs some
\* record lists under a role_name that matches ^([^:]+)::roles::(.*)$ in its
\* entirety with app as first group, and it is the comma-join, in record
\* order, of the second groups of those records; a role_name with a prefix
\* before such a pattern registers no role.
C32_RolesAsStated ==
    BetweenCycles =>
        \A u \in RoleUsers \cup DOMAIN role :
            \A a \in RoleApps \cup (IF u \in DOMAIN role THEN DOMAIN role[u] ELSE {}) :
                LET roles == RolesListed(RecordsOfLastCycle, u, a)
                IN  IF roles = <<>>
                    THEN ~(u \in DOMAIN role /\ a \in DOMAIN role[u])
                    ELSE /\ u \in DOMAIN role
                         /\ a \in DOMAIN role[u]
                         /\ role[u][a] = CommaJoin(roles)

\* The role_names the records of the last cycle carry.
RecordNames == { RecordsOfLastCycle[i].role_name : i \in DOMAIN RecordsOfLastCycle }

\* C33: after a fetch perm has exactly the role_names of the records as keys,
\* and perm[r] is the union of the user sets of all records named r, over all
\* the lists of all the URIs, whether or not r is a roles entry.
C33_PermIsUnionOfRecords ==
    BetweenCycles =>
        /\ DOMAIN perm = RecordNames
        /\ \A r \in RecordNames :
              perm[r] = UNION { RecordsOfLastCycle[i].user_id :
                                  i \in { j \in DOMAIN RecordsOfLastCycle :
                                            RecordsOfLastCycle[j].role_name = r } }

\* A permission whose users come from two records of one list and from a
\* record of the other URI, and a roles entry listed by two records.
C33_Witness ==
    /\ BetweenCycles
    /\ "p" \in DOMAIN perm
    /\ perm["p"] = {"u1", "u2", "u3"}

\* A cycle of update_perm goes on to its writes with this step.
CycleFetched == refresher.pc = "sleep" /\ refresher'.pc = "perm_write"

\* C40: a refresh cycle is all-or-nothing. Only a cycle in which every URI
\* answered goes on to write; a failed cycle adds exactly one to the failure
\* count, modifies neither perm nor role and keeps nothing of what it fetched;
\* after failures requests are still decided against the maps of the last
\* successful fetch.
C40_CycleAllOrNothing ==
    [][ /\ CycleFetched =>
              /\ \A i \in DOMAIN refresher'.fetched : IsSome(refresher'.fetched[i])
              /\ refresher'.update = get_perm(refresher'.fetched)
        /\ CycleFailed =>
              /\ refresher'.error_count = refresher.error_count + 1
              /\ perm' = perm /\ role' = role
              /\ refresher'.update = None
              /\ refresher'.fetched = <<>>
              /\ refresher'.payloads = refresher.payloads
        /\ (BetweenCycles /\ refresher.error_count > 0) =>
              /\ perm = BuiltFromLastCycle.perm
              /\ role = BuiltFromLastCycle.role
              /\ (pc = "perm" /\ pc' # "perm") =>
                    (InSeq("permission", hist') <=>
                        has_perm(BuiltFromLastCycle.perm, Unwrap(ctx.endpoint).permission,
                                 Unwrap(ctx.claims).token_id))
      ]_vars

\* A request passed its permission check after a cycle failed, the caches
\* still being those of the last successful fetch.
C40_Witness ==
    /\ refresher.error_count = 1
    /\ refresher.pc = "sleep"
    /\ perm = BuiltFromLastCycle.perm
    /\ pc = "role"
    /\ InSeq("permission", hist)

\* What the validated claims, the role cache entry of the app and the token
\* source say each identity header is.
IdentityHeaders ==
    LET claims == Unwrap(ctx.claims)
    IN  [y \in {"x-forwarded-user", "x-forwarded-user-username",
                "x-forwarded-user-first-name", "x-forwarded-user-last-name",
                "x-forwarded-user-email", "x-forwarded-user-roles",
                "x-forwarded-user-type"} |->
            CASE y = "x-forwarded-user" -> claims.token_id
              [] y = "x-forwarded-user-username" -> claims.preferred_username
              [] y = "x-forwarded-user-first-name" -> claims.given_name
              [] y = "x-forwarded-user-last-name" -> claims.family_name
              [] y = "x-forwarded-user-email" -> claims.email
              [] y = "x-forwarded-user-roles" ->
                    RolesOf(role, claims.token_id, From(Unwrap(ctx.api).app_name, 1))
              [] y = "x-forwarded-user-type" -> ctx.token_type]

\* C35: every identity header the backend sees on a request forwarded over
\* HTTP carries the value the claims, the role cache and the token source
\* give it; a value the client supplied never reaches the backend, also when
\* the claim value does not parse as a header value.
C35_IdentityHeadersFromClaims ==
    (pc = "http" /\ outbound # <<>>) =>
        \A y \in DOMAIN IdentityHeaders :
            y \in DOMAIN outbound[1].headers =>
                outbound[1].headers[y] = IdentityHeaders[y]

\* C34: every metrics commit observes response_size_high exactly when the size
\* hint of the response has an upper bound, with that bound as value, whatever
\* the hint of the request; and request_size_high exactly when the hint of the
\* request has one, with that bound as value.
C34_HighBoundsObserved ==
    (IsSome(req) /\ IsSome(resp)) =>
        \A i \in DOMAIN observed :
            /\ observed[i].response_size_high = Unwrap(resp).size_hint.upper
            /\ observed[i].request_size_high = Unwrap(req).size_hint.upper

\* C36: the perm map a request was checked against and the role map its
\* X-Forwarded-User-Roles was read from are those of one and the same fetch.
C36_PermAndRoleOfOneFetch ==
    (IsSome(ctx.perm_from) /\ IsSome(ctx.role_from)) =>
        get_perm(Unwrap(ctx.perm_from)) = get_perm(Unwrap(ctx.role_from))

\* C39: the families registered so far carry pairwise distinct names and no
\* registration has failed: no static is poisoned and no commit has panicked.
C39_EveryRegistrationSucceeds ==
    /\ \A s1, s2 \in socket_metrics.ready \cup socket_metrics.poisoned :
          s1 # s2 => SocketStatics[s1] # SocketStatics[s2]
    /\ socket_metrics.poisoned = {}
    /\ ~ws_task.panicked

DispatcherAtLock == pc \in {"api", "perm", "role"}

RefresherAtLock == refresher.pc \in {"perm_write", "role_write"}

ConsumerAtLock == IsSome(crd_pending)

====
